---- MODULE Spec2Model ----
(***************************************************************************)
(* msi-ec: the sysfs and led handlers of the MSI embedded-controller      *)
(* driver (msi-ec.c) over the EC register space.                          *)
(*                                                                         *)
(* The EC is a byte-addressable register file reached through ec_read and *)
(* ec_write, one byte per call; either call may fail with a negative      *)
(* errno.  A store handler is a fixed sequence of register writes and     *)
(* read-modify-write bit updates (ec_write_bit).  Each transport call is  *)
(* one step of the model, so that failures of single calls and the        *)
(* interleaving of two callers are both visible.  A show handler only     *)
(* reads; it is an operator of the register file and of the outcomes of   *)
(* its reads.                                                              *)
(*                                                                         *)
(* constants.h is not among the sources at hand.  The addresses, bit      *)
(* indices, mode bytes and the preset tables below are therefore taken    *)
(* from the specification and the README; the preset value table and the  *)
(* polarity of the fn/win bit are left open (tbl, fnl) and every property *)
(* is checked for each choice.                                             *)
(***************************************************************************)
EXTENDS Integers, Sequences, FiniteSets, TLC

VARIABLES
    reg,    \* the EC register file: address -> byte
    reg0,   \* the register file before any handler ran
    th,     \* per caller: the handler it runs and how far it got
    tbl,    \* which preset value table constants.h holds
    fnl     \* MSI_EC_FN_KEY_LEFT as 0/1

vars == <<reg, reg0, th, tbl, fnl>>

----------------------------------------------------------------------------
(* Errno values and transport outcomes *)

EINVAL == 22
EIO == 5
ETIME == 62
ENODEV == 19
ENOMEM == 12

\* the failure codes ec_read / ec_write hand back
TransportErrs == {0 - EIO, 0 - ETIME}

----------------------------------------------------------------------------
(* constants.h *)

MSI_EC_WEBCAM_ADDRESS == 46
MSI_EC_WEBCAM_BIT == 1
MSI_EC_FN_WIN_ADDRESS == 232
MSI_EC_FN_WIN_BIT == 4
MSI_EC_FN_KEY_LEFT == fnl
MSI_EC_FN_KEY_RIGHT == 1 - fnl
MSI_EC_WIN_KEY_LEFT == 1 - fnl
MSI_EC_WIN_KEY_RIGHT == fnl
MSI_EC_BATTERY_MODE_ADDRESS == 215
MSI_EC_BATTERY_MODE_MAX_CHARGE == 228
MSI_EC_BATTERY_MODE_MEDIUM_CHARGE == 208
MSI_EC_BATTERY_MODE_MIN_CHARGE == 188
MSI_EC_COOLER_BOOST_ADDRESS == 152
MSI_EC_COOLER_BOOST_BIT == 7
MSI_EC_SHIFT_MODE_ADDRESS == 210
MSI_EC_SHIFT_MODE_OVERCLOCK == 196
MSI_EC_SHIFT_MODE_BALANCED == 193
MSI_EC_SHIFT_MODE_ECO == 194
MSI_EC_SHIFT_MODE_OFF == 128
MSI_EC_FAN_MODE_ADDRESS == 212
MSI_EC_FAN_MODE_SILENT_BIT == 4
MSI_EC_FAN_MODE_BASIC_BIT == 6
MSI_EC_FAN_MODE_ADVANCED_BIT == 7
MSI_EC_SUPER_BATTERY_ADDRESS == 235
MSI_EC_KBD_BL_ADDRESS == 211
MSI_EC_KBD_BL_STATE_MASK == 3
MSI_EC_KBD_BL_STATE == [i \in 0..3 |-> 128 + i]
MSI_EC_KBD_LED_MICMUTE_ADDRESS == 43
MSI_EC_KBD_LED_MICMUTE_BIT == 2
MSI_EC_KBD_LED_MUTE_ADDRESS == 44
MSI_EC_KBD_LED_MUTE_BIT == 2
MSI_EC_POWER_ADDRESS == 48
MSI_EC_POWER_AC_CONNECTED_BIT == 0
MSI_EC_POWER_LID_OPEN_BIT == 1
MSI_EC_CPU_REALTIME_TEMPERATURE_ADDRESS == 104
MSI_EC_CPU_REALTIME_FAN_SPEED_ADDRESS == 113
MSI_EC_CPU_REALTIME_FAN_SPEED_BASE_MIN == 25
MSI_EC_CPU_REALTIME_FAN_SPEED_BASE_MAX == 55
MSI_EC_GPU_REALTIME_TEMPERATURE_ADDRESS == 128
MSI_EC_GPU_REALTIME_FAN_SPEED_ADDRESS == 137
MSI_EC_FW_VERSION_ADDRESS == 160
MSI_EC_FW_VERSION_LENGTH == 12
MSI_EC_FW_DATE_ADDRESS == 172
MSI_EC_FW_DATE_LENGTH == 8
MSI_EC_FW_TIME_ADDRESS == 180
MSI_EC_FW_TIME_LENGTH == 8

MSI_EC_PRESET_SUPER_BATTERY == 0
MSI_EC_PRESET_SILENT == 1
MSI_EC_PRESET_BALANCED == 2
MSI_EC_PRESET_HIGH_PERFORMANCE == 3

MSI_EC_PRESET_COLUMN_KBD_BL == 1
MSI_EC_PRESET_COLUMN_SILENT_FLAG == 2

\* ARRAY_SIZE of the two preset tables
NumPresets == 4
NumColumns == 4

\* the column addresses: pairwise different, the silent-flag column is the
\* fan-mode byte, no other column is
MSI_EC_PRESET_MEMORY_TABLE ==
    [c \in 0..(NumColumns - 1) |->
        CASE c = 0 -> MSI_EC_SHIFT_MODE_ADDRESS
          [] c = MSI_EC_PRESET_COLUMN_KBD_BL -> MSI_EC_KBD_BL_ADDRESS
          [] c = MSI_EC_PRESET_COLUMN_SILENT_FLAG -> MSI_EC_FAN_MODE_ADDRESS
          [] OTHER -> MSI_EC_SUPER_BATTERY_ADDRESS]

\* Candidate value tables, one row per preset, one byte per column; the
\* silent-flag column holds 0 or 1.
\*  1: the four rows differ on the compared columns.
\*  2: super_battery and silent differ only in the keyboard-backlight column,
\*     balanced and high_performance are the same row.
PresetTables ==
    <<  [v \in 0..(NumPresets - 1) |->
            CASE v = MSI_EC_PRESET_SUPER_BATTERY -> <<194, 129, 0, 15>>
              [] v = MSI_EC_PRESET_SILENT -> <<194, 129, 1, 0>>
              [] v = MSI_EC_PRESET_BALANCED -> <<193, 130, 0, 0>>
              [] OTHER -> <<196, 131, 0, 0>>],
        [v \in 0..(NumPresets - 1) |->
            CASE v = MSI_EC_PRESET_SUPER_BATTERY -> <<194, 129, 1, 0>>
              [] v = MSI_EC_PRESET_SILENT -> <<194, 130, 1, 0>>
              [] v = MSI_EC_PRESET_BALANCED -> <<193, 131, 0, 0>>
              [] OTHER -> <<193, 131, 0, 0>>] >>

\* MSI_EC_PRESET_VALUE_TABLE[v][c], both indices from 0 as in C
MSI_EC_PRESET_VALUE_TABLE == [v \in 0..(NumPresets - 1) |->
    [c \in 0..(NumColumns - 1) |-> PresetTables[tbl][v][c + 1]]]

\* every register the handlers below touch
Addrs == { MSI_EC_WEBCAM_ADDRESS, MSI_EC_FN_WIN_ADDRESS,
           MSI_EC_BATTERY_MODE_ADDRESS, MSI_EC_COOLER_BOOST_ADDRESS,
           MSI_EC_SHIFT_MODE_ADDRESS, MSI_EC_FAN_MODE_ADDRESS,
           MSI_EC_SUPER_BATTERY_ADDRESS, MSI_EC_KBD_BL_ADDRESS,
           MSI_EC_KBD_LED_MICMUTE_ADDRESS, MSI_EC_KBD_LED_MUTE_ADDRESS,
           MSI_EC_POWER_ADDRESS, MSI_EC_CPU_REALTIME_TEMPERATURE_ADDRESS,
           MSI_EC_CPU_REALTIME_FAN_SPEED_ADDRESS,
           MSI_EC_GPU_REALTIME_TEMPERATURE_ADDRESS,
           MSI_EC_GPU_REALTIME_FAN_SPEED_ADDRESS }

\* the registers that hold the firmware version, date and time texts
FwAddrs ==
    (MSI_EC_FW_VERSION_ADDRESS
        .. (MSI_EC_FW_VERSION_ADDRESS + MSI_EC_FW_VERSION_LENGTH - 1))
    \cup (MSI_EC_FW_DATE_ADDRESS
        .. (MSI_EC_FW_DATE_ADDRESS + MSI_EC_FW_DATE_LENGTH - 1))
    \cup (MSI_EC_FW_TIME_ADDRESS
        .. (MSI_EC_FW_TIME_ADDRESS + MSI_EC_FW_TIME_LENGTH - 1))

----------------------------------------------------------------------------
(* u8 arithmetic *)

RECURSIVE BitAnd(_, _)
BitAnd(a, b) ==
    IF a = 0 \/ b = 0 THEN 0
    ELSE (a % 2) * (b % 2) + 2 * BitAnd(a \div 2, b \div 2)

RECURSIVE BitOr(_, _)
BitOr(a, b) ==
    IF a = 0 THEN b
    ELSE IF b = 0 THEN a
    ELSE (IF a % 2 = 1 \/ b % 2 = 1 THEN 1 ELSE 0)
         + 2 * BitOr(a \div 2, b \div 2)

\* (byte >> index) & 1UL, as the int a C bool converts to
is_bit_set(index, byte) == (byte \div (2 ^ index)) % 2

\* ec_write_bit with "=" for "|=": setting a bit drops the other seven
ec_write_bit_data_assign(data, index, set) ==
    IF set
    THEN (2 ^ index) % 256
    ELSE BitAnd(data, 255 - ((2 ^ index) % 256))

\* the byte ec_write_bit writes back: data |= (1UL << index) when set,
\* data &= ~(1UL << index) otherwise, kept in a u8
ec_write_bit_data(data, index, set) ==
    IF set
    THEN BitOr(data, 2 ^ index) % 256
    ELSE BitAnd(data, 255 - ((2 ^ index) % 256))

\* streq(x, y): x is y, or y followed by a newline
streq(x, y) == x = y \/ x = y \o "\n"

----------------------------------------------------------------------------
(* Store handlers: the transport calls each one makes *)

\* One entry of a handler's call sequence: a raw ec_write of val to addr, or
\* an ec_write_bit of bit index of addr (val is then the bool set as 0/1).
\* stop: the handler returns the failure code when this call fails; without
\* it the handler carries on with the next call.
Write(addr, value, stop) ==
    [k |-> "w", addr |-> addr, index |-> 0, val |-> value, stop |-> stop]

WriteBit(addr, index, set, stop) ==
    [k |-> "wb", addr |-> addr, index |-> index,
     val |-> IF set # 0 THEN 1 ELSE 0, stop |-> stop]

\* What a handler does with its input: the calls it makes, whether the input
\* is accepted, and what it returns when no call stops it.
Handler(prog, valid, ret) == [prog |-> prog, valid |-> valid, ret |-> ret]

When(cond, call) == IF cond THEN <<call>> ELSE <<>>

webcam_store(buf, count) ==
    LET prog ==
            When(streq(buf, "on"),
                 WriteBit(MSI_EC_WEBCAM_ADDRESS, MSI_EC_WEBCAM_BIT, 1, TRUE))
            \o When(streq(buf, "off"),
                 WriteBit(MSI_EC_WEBCAM_ADDRESS, MSI_EC_WEBCAM_BIT, 0, TRUE))
    IN  Handler(prog, prog # <<>>, IF prog # <<>> THEN count ELSE 0 - EINVAL)

fn_key_store(buf, count) ==
    LET prog ==
            When(streq(buf, "left"),
                 WriteBit(MSI_EC_FN_WIN_ADDRESS, MSI_EC_FN_WIN_BIT,
                          MSI_EC_FN_KEY_LEFT, TRUE))
            \o When(streq(buf, "right"),
                 WriteBit(MSI_EC_FN_WIN_ADDRESS, MSI_EC_FN_WIN_BIT,
                          MSI_EC_FN_KEY_RIGHT, TRUE))
    IN  Handler(prog, prog # <<>>, IF prog # <<>> THEN count ELSE 0 - EINVAL)

win_key_store(buf, count) ==
    LET prog ==
            When(streq(buf, "left"),
                 WriteBit(MSI_EC_FN_WIN_ADDRESS, MSI_EC_FN_WIN_BIT,
                          MSI_EC_WIN_KEY_LEFT, TRUE))
            \o When(streq(buf, "right"),
                 WriteBit(MSI_EC_FN_WIN_ADDRESS, MSI_EC_FN_WIN_BIT,
                          MSI_EC_WIN_KEY_RIGHT, TRUE))
    IN  Handler(prog, prog # <<>>, IF prog # <<>> THEN count ELSE 0 - EINVAL)

battery_charge_mode_store(buf, count) ==
    LET prog ==
            When(streq(buf, "max"),
                 Write(MSI_EC_BATTERY_MODE_ADDRESS,
                       MSI_EC_BATTERY_MODE_MAX_CHARGE, TRUE))
            \o When(streq(buf, "medium"),
                 Write(MSI_EC_BATTERY_MODE_ADDRESS,
                       MSI_EC_BATTERY_MODE_MEDIUM_CHARGE, TRUE))
            \o When(streq(buf, "min"),
                 Write(MSI_EC_BATTERY_MODE_ADDRESS,
                       MSI_EC_BATTERY_MODE_MIN_CHARGE, TRUE))
    IN  Handler(prog, prog # <<>>, IF prog # <<>> THEN count ELSE 0 - EINVAL)

cooler_boost_store(buf, count) ==
    LET prog ==
            When(streq(buf, "on"),
                 WriteBit(MSI_EC_COOLER_BOOST_ADDRESS,
                          MSI_EC_COOLER_BOOST_BIT, 1, TRUE))
            \o When(streq(buf, "off"),
                 WriteBit(MSI_EC_COOLER_BOOST_ADDRESS,
                          MSI_EC_COOLER_BOOST_BIT, 0, TRUE))
    IN  Handler(prog, prog # <<>>, IF prog # <<>> THEN count ELSE 0 - EINVAL)

shift_mode_store(buf, count) ==
    LET prog ==
            When(streq(buf, "overclock"),
                 Write(MSI_EC_SHIFT_MODE_ADDRESS,
                       MSI_EC_SHIFT_MODE_OVERCLOCK, TRUE))
            \o When(streq(buf, "balanced"),
                 Write(MSI_EC_SHIFT_MODE_ADDRESS,
                       MSI_EC_SHIFT_MODE_BALANCED, TRUE))
            \o When(streq(buf, "eco"),
                 Write(MSI_EC_SHIFT_MODE_ADDRESS,
                       MSI_EC_SHIFT_MODE_ECO, TRUE))
            \o When(streq(buf, "off"),
                 Write(MSI_EC_SHIFT_MODE_ADDRESS,
                       MSI_EC_SHIFT_MODE_OFF, TRUE))
    IN  Handler(prog, prog # <<>>, IF prog # <<>> THEN count ELSE 0 - EINVAL)

\* fan_mode_store without the check of the four names
fan_mode_store_unchecked(buf, count) ==
    LET flag(b) == IF b THEN 1 ELSE 0
    IN  Handler(
          << WriteBit(MSI_EC_FAN_MODE_ADDRESS, MSI_EC_FAN_MODE_BASIC_BIT,
                      flag(streq(buf, "basic")), TRUE),
             WriteBit(MSI_EC_FAN_MODE_ADDRESS, MSI_EC_FAN_MODE_ADVANCED_BIT,
                      flag(streq(buf, "advanced")), TRUE),
             WriteBit(MSI_EC_FAN_MODE_ADDRESS, MSI_EC_FAN_MODE_SILENT_BIT,
                      flag(streq(buf, "silent")), TRUE) >>,
          TRUE, count)

\* fan_mode_store that sets the flag of the mode asked for and leaves the
\* two other flags as they are ("auto" clears the basic flag only)
fan_mode_store_set_only(buf, count) ==
    LET is_auto == streq(buf, "auto")
        is_silent == streq(buf, "silent")
        is_basic == streq(buf, "basic")
        is_adv == streq(buf, "advanced")
        flag(b) == IF b THEN 1 ELSE 0
    IN  IF ~is_auto /\ ~is_basic /\ ~is_adv /\ ~is_silent
        THEN Handler(<<>>, FALSE, 0 - EINVAL)
        ELSE Handler(
               << WriteBit(MSI_EC_FAN_MODE_ADDRESS,
                           IF is_silent THEN MSI_EC_FAN_MODE_SILENT_BIT
                           ELSE IF is_adv THEN MSI_EC_FAN_MODE_ADVANCED_BIT
                           ELSE MSI_EC_FAN_MODE_BASIC_BIT,
                           flag(~is_auto), TRUE) >>,
               TRUE, count)

fan_mode_store(buf, count) ==
    LET is_auto == streq(buf, "auto")
        is_silent == streq(buf, "silent")
        is_basic == streq(buf, "basic")
        is_adv == streq(buf, "advanced")
        flag(b) == IF b THEN 1 ELSE 0
    IN  IF ~is_auto /\ ~is_basic /\ ~is_adv /\ ~is_silent
        THEN Handler(<<>>, FALSE, 0 - EINVAL)
        ELSE Handler(
               << WriteBit(MSI_EC_FAN_MODE_ADDRESS,
                           MSI_EC_FAN_MODE_BASIC_BIT, flag(is_basic), TRUE),
                  WriteBit(MSI_EC_FAN_MODE_ADDRESS,
                           MSI_EC_FAN_MODE_ADVANCED_BIT, flag(is_adv), TRUE),
                  WriteBit(MSI_EC_FAN_MODE_ADDRESS,
                           MSI_EC_FAN_MODE_SILENT_BIT, flag(is_silent), TRUE) >>,
               TRUE, count)

\* the index preset_store looks the name up to, -1 for no preset
preset_index(buf) ==
    IF streq(buf, "super_battery") THEN MSI_EC_PRESET_SUPER_BATTERY
    ELSE IF streq(buf, "silent") THEN MSI_EC_PRESET_SILENT
    ELSE IF streq(buf, "balanced") THEN MSI_EC_PRESET_BALANCED
    ELSE IF streq(buf, "high_performance") THEN MSI_EC_PRESET_HIGH_PERFORMANCE
    ELSE -1

\* preset_store without the silent-flag case: every column a raw write
preset_column_write_all_raw(index, c) ==
    Write(MSI_EC_PRESET_MEMORY_TABLE[c],
          MSI_EC_PRESET_VALUE_TABLE[index][c], FALSE)

\* preset_store that leaves the keyboard-backlight byte as it found it
preset_column_write_keep_kbd(index, c) ==
    LET addr == MSI_EC_PRESET_MEMORY_TABLE[c]
        value == MSI_EC_PRESET_VALUE_TABLE[index][c]
    IN  IF c = MSI_EC_PRESET_COLUMN_SILENT_FLAG
        THEN WriteBit(addr, MSI_EC_FAN_MODE_SILENT_BIT, value, FALSE)
        ELSE IF c = MSI_EC_PRESET_COLUMN_KBD_BL
        THEN Write(addr, reg0[addr], FALSE)
        ELSE Write(addr, value, FALSE)

\* preset_store whose column writes give up at the first failure
preset_column_write_stop(index, c) ==
    LET addr == MSI_EC_PRESET_MEMORY_TABLE[c]
        value == MSI_EC_PRESET_VALUE_TABLE[index][c]
    IN  IF c = MSI_EC_PRESET_COLUMN_SILENT_FLAG
        THEN WriteBit(addr, MSI_EC_FAN_MODE_SILENT_BIT, value, TRUE)
        ELSE Write(addr, value, TRUE)

\* preset_store writing the silent-flag column as a whole byte that holds
\* the flag at the silent bit
preset_column_write_silent_byte(index, c) ==
    LET addr == MSI_EC_PRESET_MEMORY_TABLE[c]
        value == MSI_EC_PRESET_VALUE_TABLE[index][c]
    IN  IF c = MSI_EC_PRESET_COLUMN_SILENT_FLAG
        THEN Write(addr, value * (2 ^ MSI_EC_FAN_MODE_SILENT_BIT), FALSE)
        ELSE Write(addr, value, FALSE)

\* the call preset_store makes for column c of preset index
preset_column_write(index, c) ==
    LET addr == MSI_EC_PRESET_MEMORY_TABLE[c]
        value == MSI_EC_PRESET_VALUE_TABLE[index][c]
    IN  IF c = MSI_EC_PRESET_COLUMN_SILENT_FLAG
        THEN WriteBit(addr, MSI_EC_FAN_MODE_SILENT_BIT, value, FALSE)
        ELSE Write(addr, value, FALSE)

\* the closing calls made for every preset
preset_validate_fan_modes_always(index) ==
    << WriteBit(MSI_EC_FAN_MODE_ADDRESS,
                MSI_EC_FAN_MODE_ADVANCED_BIT, 0, FALSE),
       WriteBit(MSI_EC_FAN_MODE_ADDRESS,
                MSI_EC_FAN_MODE_BASIC_BIT, 0, FALSE) >>

\* the closing "validate fan modes" calls of preset_store
preset_validate_fan_modes(index) ==
    IF index # MSI_EC_PRESET_HIGH_PERFORMANCE
    THEN << WriteBit(MSI_EC_FAN_MODE_ADDRESS,
                     MSI_EC_FAN_MODE_ADVANCED_BIT, 0, FALSE),
            WriteBit(MSI_EC_FAN_MODE_ADDRESS,
                     MSI_EC_FAN_MODE_BASIC_BIT, 0, FALSE) >>
    ELSE <<>>

preset_store(buf, count) ==
    LET index == preset_index(buf)
    IN  IF index = -1
        THEN Handler(<<>>, FALSE, 0 - EINVAL)
        ELSE Handler(
               [i \in 1..NumColumns |-> preset_column_write(index, i - 1)]
               \o preset_validate_fan_modes(index),
               TRUE, count)

\* ec_write_bit that does not look at what ec_read and ec_write return
ec_write_bit_unchecked(addr, index, set) ==
    Handler(<< WriteBit(addr, index, set, FALSE) >>, TRUE, 0)

\* a caller of ec_write_bit by itself: ec_read, change the bit, ec_write
ec_write_bit(addr, index, set) ==
    Handler(<< WriteBit(addr, index, set, TRUE) >>, TRUE, 0)

micmute_led_sysfs_set(brightness) ==
    Handler(<< WriteBit(MSI_EC_KBD_LED_MICMUTE_ADDRESS,
                        MSI_EC_KBD_LED_MICMUTE_BIT, brightness, TRUE) >>,
            TRUE, 0)

mute_led_sysfs_set(brightness) ==
    Handler(<< WriteBit(MSI_EC_KBD_LED_MUTE_ADDRESS,
                        MSI_EC_KBD_LED_MUTE_BIT, brightness, TRUE) >>,
            TRUE, 0)

kbd_bl_sysfs_set(brightness) ==
    IF brightness > 3
    THEN Handler(<<>>, FALSE, -1)
    ELSE Handler(<< Write(MSI_EC_KBD_BL_ADDRESS,
                          MSI_EC_KBD_BL_STATE[brightness], TRUE) >>,
                 TRUE, 0)

\* Module load.  acpi_disabled: ACPI is off; result: what registering the
\* platform driver and device comes to.  Once the attributes and the led
\* callbacks are registered the keyboard backlight is switched on with one
\* ec_write whose result is not looked at.
msi_ec_init(acpi_disabled, result) ==
    IF acpi_disabled THEN Handler(<<>>, FALSE, 0 - ENODEV)
    ELSE IF result < 0 THEN Handler(<<>>, FALSE, result)
    ELSE Handler(<< Write(MSI_EC_KBD_BL_ADDRESS,
                          MSI_EC_KBD_BL_STATE[2], FALSE) >>,
                 TRUE, 0)

----------------------------------------------------------------------------
(* Show handlers: what each returns for a register file r and the outcome   *)
(* of its reads                                                             *)

\* sprintf(buf, ...): the text put in buf and its length as return value
Printed(text, reads, failed) ==
    [ret |-> Len(text), out |-> text, log |-> reads, failed |-> failed,
     err |-> 0]

\* a handler that returns the code e of its failing ec_read
ReadFailed(e, reads) ==
    [ret |-> e, out |-> "", log |-> reads, failed |-> TRUE, err |-> e]

\* an ec_write issued where the handlers issue ec_read
WriteOf(addr) == [k |-> "w", a |-> addr, v |-> 0]

\* one ec_read(addr, &rdata) in the list of transport calls of a handler
ReadOf(addr) == [k |-> "r", a |-> addr, v |-> 0]

\* e: what ec_read returns, 0 or a failure code
fn_key_show(r, e) ==
    LET rdata == r[MSI_EC_FN_WIN_ADDRESS]
        reads == <<ReadOf(MSI_EC_FN_WIN_ADDRESS)>>
    IN  IF e < 0 THEN ReadFailed(e, reads)
        ELSE IF is_bit_set(MSI_EC_FN_WIN_BIT, rdata) = MSI_EC_FN_KEY_LEFT
             THEN Printed("left\n", reads, FALSE)
             ELSE Printed("right\n", reads, FALSE)

\* win_key_show testing the bit against the fn-key constant
win_key_show_fn_constant(r, e) ==
    LET rdata == r[MSI_EC_FN_WIN_ADDRESS]
        reads == <<ReadOf(MSI_EC_FN_WIN_ADDRESS)>>
    IN  IF e < 0 THEN ReadFailed(e, reads)
        ELSE IF is_bit_set(MSI_EC_FN_WIN_BIT, rdata) = MSI_EC_FN_KEY_LEFT
             THEN Printed("left\n", reads, FALSE)
             ELSE Printed("right\n", reads, FALSE)

win_key_show(r, e) ==
    LET rdata == r[MSI_EC_FN_WIN_ADDRESS]
        reads == <<ReadOf(MSI_EC_FN_WIN_ADDRESS)>>
    IN  IF e < 0 THEN ReadFailed(e, reads)
        ELSE IF is_bit_set(MSI_EC_FN_WIN_BIT, rdata) = MSI_EC_WIN_KEY_LEFT
             THEN Printed("left\n", reads, FALSE)
             ELSE Printed("right\n", reads, FALSE)

\* the name preset_show prints for the matching preset v
preset_name(v) ==
    CASE v = MSI_EC_PRESET_SUPER_BATTERY -> "super_battery"
      [] v = MSI_EC_PRESET_SILENT -> "silent"
      [] v = MSI_EC_PRESET_BALANCED -> "balanced"
      [] v = MSI_EC_PRESET_HIGH_PERFORMANCE -> "high_performance"
      [] OTHER -> "custom"

\* the body of the column loop with the keyboard-backlight column compared
\* as every other byte column is
preset_show_column_kbd(v, c, e, rdata) ==
    LET value == MSI_EC_PRESET_VALUE_TABLE[v][c]
        continue == [v |-> v, c |-> c + 1]
        break == [v |-> v + 1, c |-> 0]
    IN  IF e < 0 THEN break
        ELSE IF c = MSI_EC_PRESET_COLUMN_SILENT_FLAG
        THEN IF value = is_bit_set(MSI_EC_FAN_MODE_SILENT_BIT, rdata)
             THEN continue ELSE break
        ELSE IF value # rdata THEN break
        ELSE continue

\* the body of the column loop giving up the whole search at a failed read
preset_show_column_abort(v, c, e, rdata) ==
    LET value == MSI_EC_PRESET_VALUE_TABLE[v][c]
        continue == [v |-> v, c |-> c + 1]
        break == [v |-> v + 1, c |-> 0]
    IN  IF e < 0 THEN [v |-> NumPresets, c |-> 0]
        ELSE IF c = MSI_EC_PRESET_COLUMN_KBD_BL THEN continue
        ELSE IF c = MSI_EC_PRESET_COLUMN_SILENT_FLAG
        THEN IF value = is_bit_set(MSI_EC_FAN_MODE_SILENT_BIT, rdata)
             THEN continue ELSE break
        ELSE IF value # rdata THEN break
        ELSE continue

\* The body of the column loop of preset_show at preset v, column c, once
\* ec_read has returned e and, if e is no failure, stored rdata: the preset
\* and column of the next read.  "break" leaves the column loop with match
\* FALSE and goes on with the next preset; c = NumColumns after "continue"
\* ends the column loop with match TRUE.
preset_show_column(v, c, e, rdata) ==
    LET value == MSI_EC_PRESET_VALUE_TABLE[v][c]
        continue == [v |-> v, c |-> c + 1]
        break == [v |-> v + 1, c |-> 0]
    IN  IF e < 0 THEN break
        ELSE IF c = MSI_EC_PRESET_COLUMN_KBD_BL THEN continue
        ELSE IF c = MSI_EC_PRESET_COLUMN_SILENT_FLAG
        THEN IF value = is_bit_set(MSI_EC_FAN_MODE_SILENT_BIT, rdata)
             THEN continue ELSE break
        ELSE IF value # rdata THEN break
        ELSE continue

\* preset_show is over before the read at preset v, column c: a preset
\* matched, or no preset is left
preset_show_over(v, c) == c >= NumColumns \/ v >= NumPresets

\* preset_show with no "custom" to fall back on
preset_show_text_no_custom(v, c) ==
    IF v < NumPresets /\ c >= NumColumns THEN preset_name(v) \o "\n" ELSE ""

\* what preset_show prints then
preset_show_text(v, c) ==
    IF v < NumPresets /\ c >= NumColumns THEN preset_name(v) \o "\n"
    ELSE "custom\n"

\* preset_show run from preset v, column c on with no other transport call
\* between its reads, on register file r; fails: the numbers (from 1) of
\* its ec_read calls that fail.  Yields the position it ends at and the reads
\* made.
RECURSIVE preset_show_loop(_, _, _, _, _)
preset_show_loop(r, fails, v, c, reads) ==
    IF preset_show_over(v, c) THEN [v |-> v, c |-> c, reads |-> reads]
    ELSE
        LET addr == MSI_EC_PRESET_MEMORY_TABLE[c]
            now == Append(reads, ReadOf(addr))
            next == preset_show_column(v, c,
                        IF Len(now) \in fails THEN 0 - EIO ELSE 0, r[addr])
        IN  preset_show_loop(r, fails, next.v, next.c, now)

preset_show(r, fails) ==
    LET m == preset_show_loop(r, fails, 0, 0, <<>>)
    IN  Printed(preset_show_text(m.v, m.c), m.reads,
                \E i \in 1..Len(m.reads) : i \in fails)

\* sprintf("%i") of n: decimal digits, a minus sign before them if n < 0
RECURSIVE Decimal(_)
Decimal(n) ==
    LET digit == <<"0", "1", "2", "3", "4", "5", "6", "7", "8", "9">>
    IN  IF n < 0 THEN "-" \o Decimal(0 - n)
        ELSE IF n < 10 THEN digit[n + 1]
        ELSE Decimal(n \div 10) \o digit[(n % 10) + 1]

webcam_show(r, e) ==
    LET rdata == r[MSI_EC_WEBCAM_ADDRESS]
        reads == <<ReadOf(MSI_EC_WEBCAM_ADDRESS)>>
    IN  IF e < 0 THEN ReadFailed(e, reads)
        ELSE IF is_bit_set(MSI_EC_WEBCAM_BIT, rdata) = 1
             THEN Printed("on\n", reads, FALSE)
             ELSE Printed("off\n", reads, FALSE)

battery_charge_mode_show(r, e) ==
    LET rdata == r[MSI_EC_BATTERY_MODE_ADDRESS]
        reads == <<ReadOf(MSI_EC_BATTERY_MODE_ADDRESS)>>
    IN  IF e < 0 THEN ReadFailed(e, reads)
        ELSE CASE rdata = MSI_EC_BATTERY_MODE_MAX_CHARGE ->
                    Printed("max\n", reads, FALSE)
               [] rdata = MSI_EC_BATTERY_MODE_MEDIUM_CHARGE ->
                    Printed("medium\n", reads, FALSE)
               [] rdata = MSI_EC_BATTERY_MODE_MIN_CHARGE ->
                    Printed("min\n", reads, FALSE)
               [] OTHER ->
                    Printed("unknown (" \o Decimal(rdata) \o ")\n",
                            reads, FALSE)

cooler_boost_show(r, e) ==
    LET rdata == r[MSI_EC_COOLER_BOOST_ADDRESS]
        reads == <<ReadOf(MSI_EC_COOLER_BOOST_ADDRESS)>>
    IN  IF e < 0 THEN ReadFailed(e, reads)
        ELSE IF is_bit_set(MSI_EC_COOLER_BOOST_BIT, rdata) = 1
             THEN Printed("on\n", reads, FALSE)
             ELSE Printed("off\n", reads, FALSE)

shift_mode_show(r, e) ==
    LET rdata == r[MSI_EC_SHIFT_MODE_ADDRESS]
        reads == <<ReadOf(MSI_EC_SHIFT_MODE_ADDRESS)>>
    IN  IF e < 0 THEN ReadFailed(e, reads)
        ELSE CASE rdata = MSI_EC_SHIFT_MODE_OVERCLOCK ->
                    Printed("overclock\n", reads, FALSE)
               [] rdata = MSI_EC_SHIFT_MODE_BALANCED ->
                    Printed("balanced\n", reads, FALSE)
               [] rdata = MSI_EC_SHIFT_MODE_ECO ->
                    Printed("eco\n", reads, FALSE)
               [] rdata = MSI_EC_SHIFT_MODE_OFF ->
                    Printed("off\n", reads, FALSE)
               [] OTHER ->
                    Printed("unknown (" \o Decimal(rdata) \o ")\n",
                            reads, FALSE)

\* fan_mode_show testing the flags in the order basic, advanced, silent
fan_mode_show_basic_first(r, e) ==
    LET rdata == r[MSI_EC_FAN_MODE_ADDRESS]
        reads == <<ReadOf(MSI_EC_FAN_MODE_ADDRESS)>>
    IN  IF e < 0 THEN ReadFailed(e, reads)
        ELSE IF is_bit_set(MSI_EC_FAN_MODE_BASIC_BIT, rdata) = 1
             THEN Printed("basic\n", reads, FALSE)
        ELSE IF is_bit_set(MSI_EC_FAN_MODE_ADVANCED_BIT, rdata) = 1
             THEN Printed("advanced\n", reads, FALSE)
        ELSE IF is_bit_set(MSI_EC_FAN_MODE_SILENT_BIT, rdata) = 1
             THEN Printed("silent\n", reads, FALSE)
        ELSE Printed("auto\n", reads, FALSE)

fan_mode_show(r, e) ==
    LET rdata == r[MSI_EC_FAN_MODE_ADDRESS]
        reads == <<ReadOf(MSI_EC_FAN_MODE_ADDRESS)>>
    IN  IF e < 0 THEN ReadFailed(e, reads)
        ELSE IF is_bit_set(MSI_EC_FAN_MODE_SILENT_BIT, rdata) = 1
             THEN Printed("silent\n", reads, FALSE)
        ELSE IF is_bit_set(MSI_EC_FAN_MODE_ADVANCED_BIT, rdata) = 1
             THEN Printed("advanced\n", reads, FALSE)
        ELSE IF is_bit_set(MSI_EC_FAN_MODE_BASIC_BIT, rdata) = 1
             THEN Printed("basic\n", reads, FALSE)
        ELSE Printed("auto\n", reads, FALSE)

ac_connected_show(r, e) ==
    LET rdata == r[MSI_EC_POWER_ADDRESS]
        reads == <<ReadOf(MSI_EC_POWER_ADDRESS)>>
    IN  IF e < 0 THEN ReadFailed(e, reads)
        ELSE Printed(
               Decimal(is_bit_set(MSI_EC_POWER_AC_CONNECTED_BIT, rdata))
               \o "\n", reads, FALSE)

lid_open_show(r, e) ==
    LET rdata == r[MSI_EC_POWER_ADDRESS]
        reads == <<ReadOf(MSI_EC_POWER_ADDRESS)>>
    IN  IF e < 0 THEN ReadFailed(e, reads)
        ELSE Printed(
               Decimal(is_bit_set(MSI_EC_POWER_LID_OPEN_BIT, rdata))
               \o "\n", reads, FALSE)

cpu_realtime_temperature_show(r, e) ==
    LET rdata == r[MSI_EC_CPU_REALTIME_TEMPERATURE_ADDRESS]
        reads == <<ReadOf(MSI_EC_CPU_REALTIME_TEMPERATURE_ADDRESS)>>
    IN  IF e < 0 THEN ReadFailed(e, reads)
        ELSE Printed(Decimal(rdata) \o "\n", reads, FALSE)

\* a show handler that returns -EINVAL after a read that went well
OutOfRange(reads) ==
    [ret |-> 0 - EINVAL, out |-> "", log |-> reads, failed |-> FALSE,
     err |-> 0]

cpu_realtime_fan_speed_show(r, e) ==
    LET rdata == r[MSI_EC_CPU_REALTIME_FAN_SPEED_ADDRESS]
        reads == <<ReadOf(MSI_EC_CPU_REALTIME_FAN_SPEED_ADDRESS)>>
    IN  IF e < 0 THEN ReadFailed(e, reads)
        ELSE IF \/ rdata < MSI_EC_CPU_REALTIME_FAN_SPEED_BASE_MIN
                \/ rdata > MSI_EC_CPU_REALTIME_FAN_SPEED_BASE_MAX
             THEN OutOfRange(reads)
        ELSE Printed(
               Decimal((100 * (rdata - MSI_EC_CPU_REALTIME_FAN_SPEED_BASE_MIN))
                       \div (MSI_EC_CPU_REALTIME_FAN_SPEED_BASE_MAX
                             - MSI_EC_CPU_REALTIME_FAN_SPEED_BASE_MIN))
               \o "\n", reads, FALSE)

gpu_realtime_temperature_show(r, e) ==
    LET rdata == r[MSI_EC_GPU_REALTIME_TEMPERATURE_ADDRESS]
        reads == <<ReadOf(MSI_EC_GPU_REALTIME_TEMPERATURE_ADDRESS)>>
    IN  IF e < 0 THEN ReadFailed(e, reads)
        ELSE Printed(Decimal(rdata) \o "\n", reads, FALSE)

gpu_realtime_fan_speed_show(r, e) ==
    LET rdata == r[MSI_EC_GPU_REALTIME_FAN_SPEED_ADDRESS]
        reads == <<ReadOf(MSI_EC_GPU_REALTIME_FAN_SPEED_ADDRESS)>>
    IN  IF e < 0 THEN ReadFailed(e, reads)
        ELSE Printed(Decimal(rdata) \o "\n", reads, FALSE)

\* kbd_bl_sysfs_get without the mask: the raw byte as the level
kbd_bl_sysfs_get_unmasked(r, e) ==
    LET rdata == r[MSI_EC_KBD_BL_ADDRESS]
        reads == <<ReadOf(MSI_EC_KBD_BL_ADDRESS)>>
    IN  IF e < 0
        THEN [ret |-> 0, out |-> "", log |-> reads, failed |-> TRUE,
              err |-> e]
        ELSE [ret |-> rdata, out |-> "", log |-> reads, failed |-> FALSE,
              err |-> 0]

\* the led getter returns a brightness, no text: 0 when the read fails,
\* rdata & MSI_EC_KBD_BL_STATE_MASK otherwise
kbd_bl_sysfs_get(r, e) ==
    LET rdata == r[MSI_EC_KBD_BL_ADDRESS]
        reads == <<ReadOf(MSI_EC_KBD_BL_ADDRESS)>>
    IN  IF e < 0
        THEN [ret |-> 0, out |-> "", log |-> reads, failed |-> TRUE,
              err |-> e]
        ELSE [ret |-> BitAnd(rdata, MSI_EC_KBD_BL_STATE_MASK), out |-> "",
              log |-> reads, failed |-> FALSE, err |-> 0]

----------------------------------------------------------------------------
(* Firmware identity: byte sequences read with ec_read_seq, scanned with    *)
(* sscanf and printed with sprintf                                          *)

\* the characters of the bytes 32..95
Ascii ==
    <<
       " ", "!", "\"", "#", "$", "%", "&", "'", "(", ")",
       "*", "+", ",", "-", ".", "/", "0", "1", "2", "3",
       "4", "5", "6", "7", "8", "9", ":", ";", "<", "=",
       ">", "?", "@", "A", "B", "C", "D", "E", "F", "G",
       "H", "I", "J", "K", "L", "M", "N", "O", "P", "Q",
       "R", "S", "T", "U", "V", "W", "X", "Y", "Z", "[",
       "\\", "]", "^", "_" >>

Chr(b) == Ascii[b - 31]

\* the C string held in a byte buffer that ends with a NUL: the bytes
\* before the first NUL
RECURSIVE CString(_)
CString(bytes) ==
    IF bytes = <<>> \/ Head(bytes) = 0 THEN <<>>
    ELSE <<Head(bytes)>> \o CString(Tail(bytes))

\* sprintf("%s") of a C string
RECURSIVE Text(_)
Text(str) == IF str = <<>> THEN "" ELSE Chr(Head(str)) \o Text(Tail(str))

\* ec_read_seq going on with the next byte whatever ec_read returns and
\* handing back the result of the last read
ec_read_seq_all(r, addr, len, buf, e) ==
    LET a == (addr + Len(buf)) % 256
        now == Append(buf, IF e < 0 THEN 0 ELSE r[a])
    IN  [read |-> ReadOf(a), buf |-> now, over |-> Len(now) >= len,
         result |-> e]

\* One pass of the loop of ec_read_seq(addr, buf, len) with i = Len(buf)
\* bytes stored so far: ec_read(addr + i, buf + i) has returned e on the
\* registers r.  read: the ec_read made; buf: the bytes stored now; over: the
\* function returns, and result is what it returns.
ec_read_seq(r, addr, len, buf, e) ==
    LET a == (addr + Len(buf)) % 256
        now == IF e < 0 THEN buf ELSE Append(buf, r[a])
    IN  [read |-> ReadOf(a), buf |-> now,
         over |-> e < 0 \/ Len(now) >= len,
         result |-> IF e < 0 THEN e ELSE 0]

\* fw_version_show once ec_read_seq has returned result with rdata stored
fw_version_show(result, rdata, reads) ==
    IF result < 0 THEN ReadFailed(result, reads)
    ELSE Printed(Text(CString(rdata)) \o "\n", reads, FALSE)

\* isspace and isdigit of a byte
IsSpace(b) == b \in (9..13) \cup {32, 160}
IsDigit(b) == b \in 48..57

RECURSIVE SkipSpaces(_)
SkipSpaces(str) ==
    IF str # <<>> /\ IsSpace(Head(str)) THEN SkipSpaces(Tail(str)) ELSE str

\* how many of the first max bytes of str are digits, counted from the front
RECURSIVE DigitRun(_, _)
DigitRun(str, max) ==
    IF max <= 0 \/ str = <<>> \/ ~IsDigit(Head(str)) THEN 0
    ELSE 1 + DigitRun(Tail(str), max - 1)

\* the number written by a run of digits
RECURSIVE DigitsValue(_, _)
DigitsValue(str, acc) ==
    IF str = <<>> THEN acc
    ELSE DigitsValue(Tail(str), 10 * acc + (Head(str) - 48))

\* the items of a scan format: a conversion %<w>d or a literal character
Conv(w) == [k |-> "d", w |-> w, c |-> 0]
Lit(c) == [k |-> "lit", w |-> 0, c |-> c]

\* sscanf(str, fmt, ...): the values it assigns, in order; it stops at the
\* first item that does not match and leaves the later arguments alone.
\* A %<w>d skips white space, takes a '-' and digits, w characters at most,
\* and fails when the first character after the sign is no digit.
RECURSIVE vsscanf(_, _, _)
vsscanf(str, fmt, vals) ==
    IF fmt = <<>> THEN vals
    ELSE LET f == Head(fmt)
         IN  IF f.k = "lit"
             THEN IF str # <<>> /\ Head(str) = f.c
                  THEN vsscanf(Tail(str), Tail(fmt), vals)
                  ELSE vals
             ELSE IF str = <<>> THEN vals
             ELSE LET s1 == SkipSpaces(str)
                      neg == s1 # <<>> /\ Head(s1) = 45
                      body == IF neg THEN Tail(s1) ELSE s1
                      max == IF neg THEN f.w - 1 ELSE f.w
                      n == DigitRun(body, max)
                      val == DigitsValue(SubSeq(body, 1, n), 0)
                  IN  IF n = 0 THEN vals
                      ELSE vsscanf(SubSeq(body, n + 1, Len(body)), Tail(fmt),
                                   Append(vals, IF neg THEN 0 - val ELSE val))

\* "%02d%02d%04d" and "%02d:%02d:%02d"
DateFormat == <<Conv(2), Conv(2), Conv(4)>>
TimeFormat == <<Conv(2), Lit(58), Conv(2), Lit(58), Conv(2)>>

RECURSIVE Zeros(_)
Zeros(n) == IF n <= 0 THEN "" ELSE "0" \o Zeros(n - 1)

\* sprintf("%0<w>d") of n
ZeroPad(n, w) ==
    IF n < 0
    THEN "-" \o Zeros(w - 1 - Len(Decimal(0 - n))) \o Decimal(0 - n)
    ELSE Zeros(w - Len(Decimal(n))) \o Decimal(n)

\* An int read before any value was assigned to it may hold any int, from
\* -2147483648 to 2147483647.  Of such a value the model keeps its sign and
\* the number of its decimal digits, which fix the text sprintf makes of it
\* but for the digits themselves: each digit is written "?".
Indeterminate == [neg : BOOLEAN, digits : 1..Len("2147483647")]

\* the indeterminate value x stands for the int n
Denotes(x, n) ==
    /\ x.neg = (n < 0)
    /\ x.digits = Len(Decimal(IF n < 0 THEN 0 - n ELSE n))

RECURSIVE Marks(_)
Marks(n) == IF n <= 0 THEN "" ELSE "?" \o Marks(n - 1)

\* sprintf("%0<w>d") of the indeterminate value x
ZeroPadIndeterminate(x, w) ==
    IF x.neg
    THEN "-" \o Zeros(w - 1 - x.digits) \o Marks(x.digits)
    ELSE Zeros(w - x.digits) \o Marks(x.digits)

\* fw_release_date_show once both sequences are read: mdy and hms are the
\* values the two sscanf calls assigned, in order.  junk: what the six ints
\* month, day, year, hour, minute, second hold before sscanf assigns them,
\* values of Indeterminate; they are declared without a value, and the value
\* sscanf returns is not looked at.
fw_release_date_show(mdy, hms, junk, reads) ==
    LET var(vals, i, k, w) ==
            IF i <= Len(vals) THEN ZeroPad(vals[i], w)
            ELSE ZeroPadIndeterminate(junk[k], w)
        month == var(mdy, 1, 1, 2)
        day == var(mdy, 2, 2, 2)
        year == var(mdy, 3, 3, 4)
        hour == var(hms, 1, 4, 2)
        minute == var(hms, 2, 5, 2)
        second == var(hms, 3, 6, 2)
    IN  Printed(year \o "/" \o month \o "/" \o day \o " " \o hour \o ":"
                \o minute \o ":" \o second \o "\n",
                reads, FALSE)

----------------------------------------------------------------------------
(* Callers *)

NoOp == "none"

\* a caller that has not entered a handler yet; err: the code of the failed
\* transport call that made the handler return, 0 when none did
Idle ==
    [st |-> "idle", op |-> NoOp, buf |-> "", arg |-> <<>>, prog |-> <<>>,
     half |-> "r", data |-> 0, ret |-> 0, out |-> "", log |-> <<>>,
     failed |-> FALSE, err |-> 0]

\* the caller enters a store handler with the given input
Enter(t, op, buf, arg, h) ==
    /\ th[t].st = "idle"
    /\ th' = [th EXCEPT ![t] =
                [Idle EXCEPT !.st = IF h.prog = <<>> THEN "done" ELSE "run",
                             !.op = op, !.buf = buf, !.arg = arg,
                             !.prog = h.prog, !.ret = h.ret]]
    /\ UNCHANGED <<reg, reg0, tbl, fnl>>

\* the call at the head of t's sequence is over; cut: the handler returns e
Advance(c, cut, e, entry) ==
    LET rest == IF cut THEN <<>> ELSE Tail(c.prog)
    IN  [c EXCEPT !.prog = rest,
                  !.half = "r",
                  !.data = 0,
                  !.st = IF rest = <<>> THEN "done" ELSE "run",
                  !.ret = IF cut THEN e ELSE c.ret,
                  !.failed = c.failed \/ e < 0,
                  !.err = IF cut THEN e ELSE c.err,
                  !.log = Append(c.log, entry)]

\* ec_write_bit, first half: ec_read(addr, &data) succeeds
ec_write_bit_read ==
    \E t \in DOMAIN th :
    /\ th[t].st = "run"
    /\ LET c == th[t]
           m == Head(c.prog)
       IN  /\ m.k = "wb"
           /\ c.half = "r"
           /\ th' = [th EXCEPT ![t] =
                       [c EXCEPT !.data = reg[m.addr], !.half = "w",
                                 !.log = Append(c.log,
                                     [k |-> "r", a |-> m.addr, v |-> 0])]]
    /\ UNCHANGED <<reg, reg0, tbl, fnl>>

\* ec_write_bit, first half: ec_read fails, the write is not issued
ec_write_bit_read_fail ==
    \E t \in DOMAIN th :
    /\ th[t].st = "run"
    /\ LET c == th[t]
           m == Head(c.prog)
       IN  /\ m.k = "wb"
           /\ c.half = "r"
           /\ \E e \in TransportErrs :
                th' = [th EXCEPT ![t] =
                         Advance(c, m.stop, e,
                                 [k |-> "r", a |-> m.addr, v |-> 0])]
    /\ UNCHANGED <<reg, reg0, tbl, fnl>>

\* the byte the call at the head of the sequence hands to ec_write
WriteValue(c) ==
    LET m == Head(c.prog)
    IN  IF m.k = "wb" THEN ec_write_bit_data(c.data, m.index, m.val # 0)
        ELSE m.val

\* ec_write(addr, value) succeeds: a raw write, or the second half of
\* ec_write_bit
ec_write ==
    \E t \in DOMAIN th :
    /\ th[t].st = "run"
    /\ LET c == th[t]
           m == Head(c.prog)
       IN  /\ m.k = "w" \/ (m.k = "wb" /\ c.half = "w")
           /\ reg' = [reg EXCEPT ![m.addr] = WriteValue(c)]
           /\ th' = [th EXCEPT ![t] =
                       Advance(c, FALSE, 0,
                               [k |-> "w", a |-> m.addr, v |-> WriteValue(c)])]
    /\ UNCHANGED <<reg0, tbl, fnl>>

\* ec_write fails: the register keeps its byte
ec_write_fail ==
    \E t \in DOMAIN th :
    /\ th[t].st = "run"
    /\ LET c == th[t]
           m == Head(c.prog)
       IN  /\ m.k = "w" \/ (m.k = "wb" /\ c.half = "w")
           /\ \E e \in TransportErrs :
                th' = [th EXCEPT ![t] =
                         Advance(c, m.stop, e,
                                 [k |-> "w", a |-> m.addr, v |-> WriteValue(c)])]
    /\ UNCHANGED <<reg, reg0, tbl, fnl>>

\* a handler run alone and without failure: its calls applied in order
RECURSIVE Exec(_, _)
Exec(prog, r) ==
    IF prog = <<>> THEN r
    ELSE LET m == Head(prog)
             value == IF m.k = "wb"
                      THEN ec_write_bit_data(r[m.addr], m.index, m.val # 0)
                      ELSE m.val
         IN  Exec(Tail(prog), [r EXCEPT ![m.addr] = value])

----------------------------------------------------------------------------
(* Inputs *)

\* what user space writes to an attribute: the words of every vocabulary,
\* some with the trailing newline of echo, and text of no vocabulary
Bufs == { "on", "off", "left", "right", "max", "medium", "min",
          "overclock", "balanced", "eco", "auto", "silent", "basic",
          "advanced", "super_battery", "high_performance", "custom",
          "on\n", "right\n", "min\n", "eco\n", "advanced\n", "balanced\n",
          "", "\n", "On", "silent\n\n" }

\* two concurrent callers draw from a part of it
ConcBufs == { "silent", "advanced", "auto", "balanced", "high_performance",
              "eco", "On" }

InputBufs == IF Cardinality(DOMAIN th) > 1 THEN ConcBufs ELSE Bufs

\* largest led brightness handed to a led setter
MaxBrightness == 5

\* the registers ec_write_bit is called on by itself
BitAddrs == {MSI_EC_FAN_MODE_ADDRESS, MSI_EC_FN_WIN_ADDRESS}

ec_write_bit_call ==
    \E t \in DOMAIN th, addr \in BitAddrs, index \in 0..7, set \in {0, 1} :
        Enter(t, "ec_write_bit", "", <<addr, index, set>>,
              ec_write_bit(addr, index, set))

webcam_store_call ==
    \E t \in DOMAIN th, buf \in InputBufs : Enter(t, "webcam_store", buf, <<>>,
                            webcam_store(buf, Len(buf)))
fn_key_store_call ==
    \E t \in DOMAIN th, buf \in InputBufs : Enter(t, "fn_key_store", buf, <<>>,
                            fn_key_store(buf, Len(buf)))
win_key_store_call ==
    \E t \in DOMAIN th, buf \in InputBufs : Enter(t, "win_key_store", buf, <<>>,
                            win_key_store(buf, Len(buf)))
battery_charge_mode_store_call ==
    \E t \in DOMAIN th, buf \in InputBufs : Enter(t, "battery_charge_mode_store", buf, <<>>,
                            battery_charge_mode_store(buf, Len(buf)))
cooler_boost_store_call ==
    \E t \in DOMAIN th, buf \in InputBufs : Enter(t, "cooler_boost_store", buf, <<>>,
                            cooler_boost_store(buf, Len(buf)))
shift_mode_store_call ==
    \E t \in DOMAIN th, buf \in InputBufs : Enter(t, "shift_mode_store", buf, <<>>,
                            shift_mode_store(buf, Len(buf)))
fan_mode_store_call ==
    \E t \in DOMAIN th, buf \in InputBufs : Enter(t, "fan_mode_store", buf, <<>>,
                            fan_mode_store(buf, Len(buf)))
preset_store_call ==
    \E t \in DOMAIN th, buf \in InputBufs : Enter(t, "preset_store", buf, <<>>,
                            preset_store(buf, Len(buf)))
micmute_led_sysfs_set_call ==
    \E t \in DOMAIN th, b \in 0..MaxBrightness : Enter(t, "micmute_led_sysfs_set", "", <<b>>,
                                      micmute_led_sysfs_set(b))
mute_led_sysfs_set_call ==
    \E t \in DOMAIN th, b \in 0..MaxBrightness : Enter(t, "mute_led_sysfs_set", "", <<b>>,
                                      mute_led_sysfs_set(b))
kbd_bl_sysfs_set_call ==
    \E t \in DOMAIN th, b \in 0..MaxBrightness : Enter(t, "kbd_bl_sysfs_set", "", <<b>>,
                                      kbd_bl_sysfs_set(b))

\* the module is loaded: its ec_write is a transport call like those of the
\* handlers, which are callable by then
msi_ec_init_call ==
    \E t \in DOMAIN th, acpi_disabled \in BOOLEAN,
       result \in {0, 0 - ENOMEM} :
        Enter(t, "msi_ec_init", "", <<acpi_disabled, result>>,
              msi_ec_init(acpi_disabled, result))

\* the caller runs a show handler to its end; arg: which of its reads fail,
\* when it makes more than one
ShowArg(t, op, arg, res) ==
    /\ th[t].st = "idle"
    /\ th' = [th EXCEPT ![t] =
                [Idle EXCEPT !.st = "done", !.op = op, !.arg = arg,
                             !.ret = res.ret,
                             !.out = res.out, !.log = res.log,
                             !.failed = res.failed, !.err = res.err]]
    /\ UNCHANGED <<reg, reg0, tbl, fnl>>

Show(t, op, res) == ShowArg(t, op, <<>>, res)

\* what one ec_read returns
ReadOutcomes == {0} \cup TransportErrs

fn_key_show_call ==
    \E t \in DOMAIN th, e \in ReadOutcomes :
        Show(t, "fn_key_show", fn_key_show(reg, e))
win_key_show_call ==
    \E t \in DOMAIN th, e \in ReadOutcomes :
        Show(t, "win_key_show", win_key_show(reg, e))
\* A caller enters preset_show.  Each ec_read of the handler is a step of its
\* own: other callers may write between two of them.  arg: the numbers of the
\* reads that failed so far, the preset and the column of the next read.
preset_show_call ==
    \E t \in DOMAIN th :
        /\ th[t].st = "idle"
        /\ th' = [th EXCEPT ![t] =
                    [Idle EXCEPT !.st = "read", !.op = "preset_show",
                                 !.arg = <<{}, 0, 0>>]]
        /\ UNCHANGED <<reg, reg0, tbl, fnl>>

\* caller record c after the ec_read of preset_show at its position has
\* returned e
preset_show_step(c, e) ==
    LET v == c.arg[2]
        col == c.arg[3]
        addr == MSI_EC_PRESET_MEMORY_TABLE[col]
        log == Append(c.log, ReadOf(addr))
        fails == IF e < 0 THEN c.arg[1] \cup {Len(log)} ELSE c.arg[1]
        next == preset_show_column(v, col, e, reg[addr])
        text == preset_show_text(next.v, next.c)
    IN  IF preset_show_over(next.v, next.c)
        THEN [c EXCEPT !.st = "done", !.arg = <<fails, next.v, next.c>>,
                       !.log = log, !.failed = fails # {},
                       !.out = text, !.ret = Len(text)]
        ELSE [c EXCEPT !.arg = <<fails, next.v, next.c>>, !.log = log,
                       !.failed = fails # {}]

\* the ec_read of preset_show succeeds
preset_show_read ==
    \E t \in DOMAIN th :
        /\ th[t].st = "read" /\ th[t].op = "preset_show"
        /\ th' = [th EXCEPT ![t] = preset_show_step(th[t], 0)]
        /\ UNCHANGED <<reg, reg0, tbl, fnl>>

\* the ec_read of preset_show fails: the failure is logged, the preset does
\* not match
preset_show_read_fail ==
    \E t \in DOMAIN th, e \in TransportErrs :
        /\ th[t].st = "read" /\ th[t].op = "preset_show"
        /\ th' = [th EXCEPT ![t] = preset_show_step(th[t], e)]
        /\ UNCHANGED <<reg, reg0, tbl, fnl>>

\* the calls of the store handler caller c entered
ProgOf(c) ==
    CASE c.op = "ec_write_bit" ->
            ec_write_bit(c.arg[1], c.arg[2], c.arg[3]).prog
      [] c.op = "webcam_store" -> webcam_store(c.buf, Len(c.buf)).prog
      [] c.op = "fn_key_store" -> fn_key_store(c.buf, Len(c.buf)).prog
      [] c.op = "win_key_store" -> win_key_store(c.buf, Len(c.buf)).prog
      [] c.op = "battery_charge_mode_store" ->
            battery_charge_mode_store(c.buf, Len(c.buf)).prog
      [] c.op = "cooler_boost_store" ->
            cooler_boost_store(c.buf, Len(c.buf)).prog
      [] c.op = "shift_mode_store" -> shift_mode_store(c.buf, Len(c.buf)).prog
      [] c.op = "fan_mode_store" -> fan_mode_store(c.buf, Len(c.buf)).prog
      [] c.op = "preset_store" -> preset_store(c.buf, Len(c.buf)).prog
      [] c.op = "micmute_led_sysfs_set" -> micmute_led_sysfs_set(c.arg[1]).prog
      [] c.op = "mute_led_sysfs_set" -> mute_led_sysfs_set(c.arg[1]).prog
      [] c.op = "kbd_bl_sysfs_set" -> kbd_bl_sysfs_set(c.arg[1]).prog
      [] c.op = "msi_ec_init" -> msi_ec_init(c.arg[1], c.arg[2]).prog
      [] OTHER -> <<>>

----------------------------------------------------------------------------
(* One caller, transport calls may fail *)

\* register contents a handler may find; the keyboard backlight as
\* msi_ec_init switched it on
DefaultBytes(a) ==
    CASE a = MSI_EC_WEBCAM_ADDRESS -> 72
      [] a = MSI_EC_KBD_BL_ADDRESS -> MSI_EC_KBD_BL_STATE[2]
      [] a = MSI_EC_BATTERY_MODE_ADDRESS -> 228
      [] a = MSI_EC_COOLER_BOOST_ADDRESS -> 2
      [] a = MSI_EC_FAN_MODE_ADDRESS -> 13
      [] OTHER -> 0

DefaultRegs == [a \in Addrs |-> DefaultBytes(a)]

ShiftBytes == {193, 0}
KbdBytes == {128, 7, 130}
FanBytes == {13, 29, 141, 77, 221}
SuperBatteryBytes == {0, 15}
FnWinBytes == {0, 255}

\* the registers of the preset columns vary together
PresetRegFiles ==
    { [DefaultRegs EXCEPT ![MSI_EC_SHIFT_MODE_ADDRESS] = x[1],
                          ![MSI_EC_KBD_BL_ADDRESS] = x[2],
                          ![MSI_EC_FAN_MODE_ADDRESS] = x[3],
                          ![MSI_EC_SUPER_BATTERY_ADDRESS] = x[4]] :
      x \in ShiftBytes \X KbdBytes \X FanBytes \X SuperBatteryBytes }

KeyRegFiles ==
    { [DefaultRegs EXCEPT ![MSI_EC_FN_WIN_ADDRESS] = x] : x \in FnWinBytes }

Init ==
    /\ \/ reg \in PresetRegFiles /\ tbl \in 1..Len(PresetTables) /\ fnl = 1
       \/ reg \in KeyRegFiles /\ tbl = 1 /\ fnl \in {0, 1}
    /\ reg0 = reg
    /\ th = [t \in {1} |-> Idle]

Next ==
    \/ webcam_store_call
    \/ fn_key_store_call
    \/ win_key_store_call
    \/ battery_charge_mode_store_call
    \/ cooler_boost_store_call
    \/ shift_mode_store_call
    \/ fan_mode_store_call
    \/ preset_store_call
    \/ micmute_led_sysfs_set_call
    \/ mute_led_sysfs_set_call
    \/ kbd_bl_sysfs_set_call
    \/ msi_ec_init_call
    \/ fn_key_show_call
    \/ win_key_show_call
    \/ preset_show_call
    \/ preset_show_read
    \/ preset_show_read_fail
    \/ ec_write_bit_read
    \/ ec_write_bit_read_fail
    \/ ec_write
    \/ ec_write_fail

Spec == Init /\ [][Next]_vars

----------------------------------------------------------------------------
(* ec_write_bit by itself, on every byte *)

InitBit ==
    /\ reg \in { [DefaultRegs EXCEPT ![MSI_EC_FAN_MODE_ADDRESS] = x[1],
                                     ![MSI_EC_FN_WIN_ADDRESS] = x[2]] :
                 x \in (0..255) \X FnWinBytes }
    /\ reg0 = reg
    /\ th = [t \in {1} |-> Idle]
    /\ tbl = 1
    /\ fnl = 1

NextBit ==
    \/ ec_write_bit_call
    \/ ec_write_bit_read
    \/ ec_write_bit_read_fail
    \/ ec_write
    \/ ec_write_fail

SpecBit == InitBit /\ [][NextBit]_vars

----------------------------------------------------------------------------
(* Two callers at once, no transport failure.  The handlers take no lock:   *)
(* between any two transport calls of one caller the other may run.         *)

ConcFanBytes == {13, 221, 29}
ConcShiftBytes == {0, 193}

InitConc ==
    /\ reg \in { [DefaultRegs EXCEPT ![MSI_EC_FAN_MODE_ADDRESS] = x[1],
                                    ![MSI_EC_SHIFT_MODE_ADDRESS] = x[2]] :
                 x \in ConcFanBytes \X ConcShiftBytes }
    /\ reg0 = reg
    /\ th = [t \in {1, 2} |-> Idle]
    /\ tbl = 1
    /\ fnl = 1

NextConc ==
    \/ shift_mode_store_call
    \/ fan_mode_store_call
    \/ preset_store_call
    \/ msi_ec_init_call
    \/ preset_show_call
    \/ preset_show_read
    \/ ec_write_bit_read
    \/ ec_write

SpecConc == InitConc /\ [][NextConc]_vars

----------------------------------------------------------------------------
(* The get side: one caller runs one show handler or the led getter over    *)
(* every byte a register may hold, the read going well or failing           *)

webcam_show_call ==
    \E t \in DOMAIN th, e \in ReadOutcomes :
        Show(t, "webcam_show", webcam_show(reg, e))
battery_charge_mode_show_call ==
    \E t \in DOMAIN th, e \in ReadOutcomes :
        Show(t, "battery_charge_mode_show", battery_charge_mode_show(reg, e))
cooler_boost_show_call ==
    \E t \in DOMAIN th, e \in ReadOutcomes :
        Show(t, "cooler_boost_show", cooler_boost_show(reg, e))
shift_mode_show_call ==
    \E t \in DOMAIN th, e \in ReadOutcomes :
        Show(t, "shift_mode_show", shift_mode_show(reg, e))
fan_mode_show_call ==
    \E t \in DOMAIN th, e \in ReadOutcomes :
        Show(t, "fan_mode_show", fan_mode_show(reg, e))
ac_connected_show_call ==
    \E t \in DOMAIN th, e \in ReadOutcomes :
        Show(t, "ac_connected_show", ac_connected_show(reg, e))
lid_open_show_call ==
    \E t \in DOMAIN th, e \in ReadOutcomes :
        Show(t, "lid_open_show", lid_open_show(reg, e))
cpu_realtime_temperature_show_call ==
    \E t \in DOMAIN th, e \in ReadOutcomes :
        Show(t, "cpu_realtime_temperature_show",
             cpu_realtime_temperature_show(reg, e))
cpu_realtime_fan_speed_show_call ==
    \E t \in DOMAIN th, e \in ReadOutcomes :
        Show(t, "cpu_realtime_fan_speed_show",
             cpu_realtime_fan_speed_show(reg, e))
gpu_realtime_temperature_show_call ==
    \E t \in DOMAIN th, e \in ReadOutcomes :
        Show(t, "gpu_realtime_temperature_show",
             gpu_realtime_temperature_show(reg, e))
gpu_realtime_fan_speed_show_call ==
    \E t \in DOMAIN th, e \in ReadOutcomes :
        Show(t, "gpu_realtime_fan_speed_show",
             gpu_realtime_fan_speed_show(reg, e))
kbd_bl_sysfs_get_call ==
    \E t \in DOMAIN th, e \in ReadOutcomes :
        Show(t, "kbd_bl_sysfs_get", kbd_bl_sysfs_get(reg, e))

\* the registers the handlers of this part read
GetAddrs ==
    { MSI_EC_WEBCAM_ADDRESS, MSI_EC_FN_WIN_ADDRESS,
      MSI_EC_BATTERY_MODE_ADDRESS, MSI_EC_COOLER_BOOST_ADDRESS,
      MSI_EC_SHIFT_MODE_ADDRESS, MSI_EC_FAN_MODE_ADDRESS,
      MSI_EC_KBD_BL_ADDRESS, MSI_EC_POWER_ADDRESS,
      MSI_EC_CPU_REALTIME_TEMPERATURE_ADDRESS,
      MSI_EC_CPU_REALTIME_FAN_SPEED_ADDRESS,
      MSI_EC_GPU_REALTIME_TEMPERATURE_ADDRESS,
      MSI_EC_GPU_REALTIME_FAN_SPEED_ADDRESS }

InitGet ==
    /\ reg \in { [DefaultRegs EXCEPT ![x[1]] = x[2]] :
                 x \in GetAddrs \X (0..255) }
    /\ reg0 = reg
    /\ th = [t \in {1} |-> Idle]
    /\ tbl = 1
    /\ fnl = 1

NextGet ==
    \/ webcam_show_call
    \/ fn_key_show_call
    \/ win_key_show_call
    \/ battery_charge_mode_show_call
    \/ cooler_boost_show_call
    \/ shift_mode_show_call
    \/ fan_mode_show_call
    \/ ac_connected_show_call
    \/ lid_open_show_call
    \/ cpu_realtime_temperature_show_call
    \/ cpu_realtime_fan_speed_show_call
    \/ gpu_realtime_temperature_show_call
    \/ gpu_realtime_fan_speed_show_call
    \/ kbd_bl_sysfs_get_call

SpecGet == InitGet /\ [][NextGet]_vars

----------------------------------------------------------------------------
(* The fan-mode byte under fan_mode_store and preset_store, from a byte     *)
(* with at most one of the silent, basic and advanced bits set              *)

\* the bits of the fan-mode byte outside the three flags stay as found
ExclusiveFanBytes == {13, 29, 77, 141}

InitFan ==
    /\ reg \in { [DefaultRegs EXCEPT ![MSI_EC_FAN_MODE_ADDRESS] = x] :
                 x \in ExclusiveFanBytes }
    /\ reg0 = reg
    /\ th = [t \in {1} |-> Idle]
    /\ tbl \in 1..Len(PresetTables)
    /\ fnl = 1

NextFan ==
    \/ fan_mode_store_call
    \/ preset_store_call
    \/ ec_write_bit_read
    \/ ec_write_bit_read_fail
    \/ ec_write
    \/ ec_write_fail

SpecFan == InitFan /\ [][NextFan]_vars

----------------------------------------------------------------------------
(* The firmware attributes over firmware texts, well formed and not, with   *)
(* any read failing and the controller updating registers between reads   *)

\* "1552EMS1.118", and "E1552" followed by NULs
VersionTexts ==
    { <<49, 53, 53, 50, 69, 77, 83, 49, 46, 49, 49, 56>>,
      <<69, 49, 53, 53, 50, 0, 0, 0, 0, 0, 0, 0>> }

\* "09152023", "12312024", "AB152023", "0915" followed by NULs, "09/15/23"
DateTexts ==
    { <<48, 57, 49, 53, 50, 48, 50, 51>>,
      <<49, 50, 51, 49, 50, 48, 50, 52>>,
      <<65, 66, 49, 53, 50, 48, 50, 51>>,
      <<48, 57, 49, 53, 0, 0, 0, 0>>,
      <<48, 57, 47, 49, 53, 47, 50, 51>> }

\* "14:30:05", "23:59:59", "14.30.05", "143005" followed by NULs, " 7:30:05"
TimeTexts ==
    { <<49, 52, 58, 51, 48, 58, 48, 53>>,
      <<50, 51, 58, 53, 57, 58, 53, 57>>,
      <<49, 52, 46, 51, 48, 46, 48, 53>>,
      <<49, 52, 51, 48, 48, 53, 0, 0>>,
      <<32, 55, 58, 51, 48, 58, 48, 53>> }

\* the register file with the three texts in the firmware registers
FwRegs(version, date, time) ==
    [a \in Addrs \cup FwAddrs |->
        IF a \in Addrs THEN DefaultRegs[a]
        ELSE IF a >= MSI_EC_FW_TIME_ADDRESS
             THEN time[a - MSI_EC_FW_TIME_ADDRESS + 1]
        ELSE IF a >= MSI_EC_FW_DATE_ADDRESS
             THEN date[a - MSI_EC_FW_DATE_ADDRESS + 1]
        ELSE version[a - MSI_EC_FW_VERSION_ADDRESS + 1]]

\* how many of the three ints a scan of the text leaves without a value
Unassigned(text, fmt) == 3 - Len(vsscanf(CString(text), fmt, <<>>))

\* the texts the registers hold at the start: each version text, and each
\* pair of a date and a time text that leaves three ints at most unassigned
FwTexts ==
    { <<v, <<48, 57, 49, 53, 50, 48, 50, 51>>,
           <<49, 52, 58, 51, 48, 58, 48, 53>> >> : v \in VersionTexts }
    \cup
    { <<<<49, 53, 53, 50, 69, 77, 83, 49, 46, 49, 49, 56>>, p[1], p[2]>> :
        p \in { q \in DateTexts \X TimeTexts :
                  Unassigned(q[1], DateFormat)
                  + Unassigned(q[2], TimeFormat) <= 3 } }

\* longest sequence read with ec_read_seq by itself
MaxSeqLen == 8

\* What the embedded controller may put into its registers while a handler
\* is between two of its reads: "3" and ":" in the first and the last byte
\* of the version, or "1" and "9" in the first and the fourth byte of the date
EcUpdates ==
    { { <<MSI_EC_FW_VERSION_ADDRESS, 51>>,
        <<MSI_EC_FW_VERSION_ADDRESS + MSI_EC_FW_VERSION_LENGTH - 1, 58>> },
      { <<MSI_EC_FW_DATE_ADDRESS, 49>>,
        <<MSI_EC_FW_DATE_ADDRESS + 3, 57>> } }

\* the controller updates registers, once, while a sequence is being read:
\* the handlers hold no lock over their reads
ec_register_update ==
    \E u \in EcUpdates :
        /\ reg = reg0
        /\ \E t \in DOMAIN th : th[t].st = "read" /\ th[t].log # <<>>
        /\ reg' = [a \in DOMAIN reg |->
                     IF \E p \in u : p[1] = a
                     THEN (CHOOSE p \in u : p[1] = a)[2]
                     ELSE reg[a]]
        /\ UNCHANGED <<reg0, th, tbl, fnl>>

\* A caller enters a function that reads a byte sequence.  Each ec_read is a
\* step of its own.  arg: addr and len of the sequence being read and the
\* bytes stored so far; for fw_release_date_show also the values the scan of
\* the date assigned and the date bytes, once the date is read.
ReadSeqEnter(t, op, arg) ==
    /\ th[t].st = "idle"
    /\ th' = [th EXCEPT ![t] =
                [Idle EXCEPT !.st = IF arg[2] = 0 THEN "done" ELSE "read",
                             !.op = op, !.arg = arg]]
    /\ UNCHANGED <<reg, reg0, tbl, fnl>>

\* ec_read_seq by itself
ec_read_seq_call ==
    \E t \in DOMAIN th,
       addr \in {MSI_EC_FW_VERSION_ADDRESS, MSI_EC_FW_DATE_ADDRESS},
       len \in 0..MaxSeqLen :
        ReadSeqEnter(t, "ec_read_seq", <<addr, len, <<>>>>)

fw_version_show_call ==
    \E t \in DOMAIN th :
        ReadSeqEnter(t, "fw_version_show",
                     <<MSI_EC_FW_VERSION_ADDRESS, MSI_EC_FW_VERSION_LENGTH,
                       <<>>>>)

fw_release_date_show_call ==
    \E t \in DOMAIN th :
        ReadSeqEnter(t, "fw_release_date_show",
                     <<MSI_EC_FW_DATE_ADDRESS, MSI_EC_FW_DATE_LENGTH,
                       <<>>, <<>>, <<>>>>)

\* caller c is in fw_release_date_show at the last read of the time
LastTimeRead(c) ==
    /\ c.op = "fw_release_date_show"
    /\ c.arg[1] = MSI_EC_FW_TIME_ADDRESS
    /\ Len(c.arg[3]) + 1 >= c.arg[2]

\* the six ints when none of them is read
NoJunk == [i \in 1..6 |-> [neg |-> FALSE, digits |-> 1]]

\* the values the six ints may be found to hold when caller c makes a read
\* that succeeds: drawn for the ints no scan assigned when the read is the
\* last of the time, of no account otherwise
Junk(c) ==
    IF LastTimeRead(c)
    THEN LET s == ec_read_seq(reg, c.arg[1], c.arg[2], c.arg[3], 0)
             hms == vsscanf(CString(s.buf), TimeFormat, <<>>)
             free == {i \in 1..3 : i > Len(c.arg[4])}
                     \cup {3 + i : i \in {j \in 1..3 : j > Len(hms)}}
         IN  { [i \in 1..6 |-> IF i \in free THEN f[i] ELSE NoJunk[i]] :
               f \in [free -> Indeterminate] }
    ELSE { NoJunk }

\* caller record c after the ec_read of its sequence has returned e
ec_read_seq_step(c, e, junk) ==
    LET s == ec_read_seq(reg, c.arg[1], c.arg[2], c.arg[3], e)
        log == Append(c.log, s.read)
        base == [c EXCEPT !.log = log, !.arg[3] = s.buf]
        Return(res) ==
            [base EXCEPT !.st = "done", !.ret = res.ret, !.out = res.out,
                         !.failed = res.failed, !.err = res.err]
    IN  IF ~s.over THEN base
        ELSE IF c.op = "ec_read_seq"
        THEN Return([ret |-> s.result, out |-> "",
                     failed |-> s.result < 0,
                     err |-> IF s.result < 0 THEN s.result ELSE 0])
        ELSE IF c.op = "fw_version_show"
        THEN Return(fw_version_show(s.result, s.buf, log))
        ELSE IF s.result < 0 THEN Return(ReadFailed(s.result, log))
        ELSE IF c.arg[1] = MSI_EC_FW_DATE_ADDRESS
        THEN [base EXCEPT !.arg =
                <<MSI_EC_FW_TIME_ADDRESS, MSI_EC_FW_TIME_LENGTH, <<>>,
                  vsscanf(CString(s.buf), DateFormat, <<>>), s.buf>>]
        ELSE Return(fw_release_date_show(
                        c.arg[4],
                        vsscanf(CString(s.buf), TimeFormat, <<>>),
                        junk, log))

ReadSeqOps == {"ec_read_seq", "fw_version_show", "fw_release_date_show"}

\* the ec_read of a sequence succeeds
ec_read_seq_read ==
    \E t \in DOMAIN th :
        /\ th[t].st = "read" /\ th[t].op \in ReadSeqOps
        /\ \E junk \in Junk(th[t]) :
             th' = [th EXCEPT ![t] = ec_read_seq_step(th[t], 0, junk)]
        /\ UNCHANGED <<reg, reg0, tbl, fnl>>

\* the ec_read of a sequence fails
ec_read_seq_read_fail ==
    \E t \in DOMAIN th, e \in TransportErrs :
        /\ th[t].st = "read" /\ th[t].op \in ReadSeqOps
        /\ th' = [th EXCEPT ![t] =
                    ec_read_seq_step(th[t], e, NoJunk)]
        /\ UNCHANGED <<reg, reg0, tbl, fnl>>

InitFw ==
    /\ reg \in { FwRegs(x[1], x[2], x[3]) : x \in FwTexts }
    /\ reg0 = reg
    /\ th = [t \in {1} |-> Idle]
    /\ tbl = 1
    /\ fnl = 1

NextFw ==
    \/ ec_read_seq_call
    \/ fw_version_show_call
    \/ fw_release_date_show_call
    \/ ec_read_seq_read
    \/ ec_read_seq_read_fail
    \/ ec_register_update

SpecFw == InitFw /\ [][NextFw]_vars

----------------------------------------------------------------------------
(* Reads only: every show handler and the backlight getter, one read after *)
(* another, over register files that fit each preset and none              *)

\* bytes of the preset columns: those of the table rows and others
ReadShiftBytes == {193, 194, 196, 0}
ReadKbdBytes == {128, 7, 130}

\* "1552EMS1.118" with "09152023" or "0915" followed by NULs, and "14:30:05"
ReadFwRegs ==
    { FwRegs(<<49, 53, 53, 50, 69, 77, 83, 49, 46, 49, 49, 56>>, date,
             <<49, 52, 58, 51, 48, 58, 48, 53>>) :
      date \in { <<48, 57, 49, 53, 50, 48, 50, 51>>,
                 <<48, 57, 49, 53, 0, 0, 0, 0>> } }

ReadRegFiles ==
    { [x[1] EXCEPT ![MSI_EC_SHIFT_MODE_ADDRESS] = x[2],
                   ![MSI_EC_KBD_BL_ADDRESS] = x[3],
                   ![MSI_EC_FAN_MODE_ADDRESS] = x[4],
                   ![MSI_EC_SUPER_BATTERY_ADDRESS] = x[5]] :
      x \in ReadFwRegs \X ReadShiftBytes \X ReadKbdBytes \X FanBytes
            \X SuperBatteryBytes }

\* the handler has returned to user space, which may read again
sysfs_read_return ==
    \E t \in DOMAIN th :
        /\ th[t].st = "done"
        /\ th' = [th EXCEPT ![t] = Idle]
        /\ UNCHANGED <<reg, reg0, tbl, fnl>>

InitRead ==
    /\ reg \in ReadRegFiles
    /\ reg0 = reg
    /\ th = [t \in {1} |-> Idle]
    /\ tbl \in 1..Len(PresetTables)
    /\ fnl = 1

NextRead ==
    \/ webcam_show_call
    \/ fn_key_show_call
    \/ win_key_show_call
    \/ battery_charge_mode_show_call
    \/ cooler_boost_show_call
    \/ shift_mode_show_call
    \/ fan_mode_show_call
    \/ preset_show_call
    \/ preset_show_read
    \/ preset_show_read_fail
    \/ fw_version_show_call
    \/ fw_release_date_show_call
    \/ ec_read_seq_read
    \/ ec_read_seq_read_fail
    \/ ac_connected_show_call
    \/ lid_open_show_call
    \/ cpu_realtime_temperature_show_call
    \/ cpu_realtime_fan_speed_show_call
    \/ gpu_realtime_temperature_show_call
    \/ gpu_realtime_fan_speed_show_call
    \/ kbd_bl_sysfs_get_call
    \/ sysfs_read_return

SpecRead == InitRead /\ [][NextRead]_vars

----------------------------------------------------------------------------
(* fan_mode_store on every byte the fan-mode register may hold              *)

InitRound ==
    /\ reg \in { [DefaultRegs EXCEPT ![MSI_EC_FAN_MODE_ADDRESS] = x] :
                 x \in 0..255 }
    /\ reg0 = reg
    /\ th = [t \in {1} |-> Idle]
    /\ tbl = 1
    /\ fnl = 1

NextRound ==
    \/ fan_mode_store_call
    \/ ec_write_bit_read
    \/ ec_write_bit_read_fail
    \/ ec_write
    \/ ec_write_fail

SpecRound == InitRound /\ [][NextRound]_vars

----------------------------------------------------------------------------
(* Properties *)

Presets == 0..(NumPresets - 1)
Columns == 0..(NumColumns - 1)

\* caller t has returned from handler op
Returned(t, op) == th[t].st = "done" /\ th[t].op = op

\* caller t has returned from preset_store of a name of the table, having
\* met no transport failure
Applied(t) ==
    /\ Returned(t, "preset_store")
    /\ preset_index(th[t].buf) # -1
    /\ ~th[t].failed

\* what preset_show prints when none of its reads fails
Classified(r) == preset_show(r, {}).out

\* presets p and q hold the same byte in every column preset_show compares
SameComparedVector(p, q) ==
    \A c \in Columns \ {MSI_EC_PRESET_COLUMN_KBD_BL} :
        MSI_EC_PRESET_VALUE_TABLE[p][c] = MSI_EC_PRESET_VALUE_TABLE[q][c]

\* C1: after preset_store(P) with no transport failure and no other writer,
\* preset_show prints the name of P, for every preset P that no other preset
\* equals on the compared columns; when other presets do, it prints the name
\* of one of them or of P.
C1_PresetRoundTrip ==
    \A t \in DOMAIN th :
        Applied(t) =>
            LET P == preset_index(th[t].buf)
            IN  /\ \E q \in Presets :
                     /\ SameComparedVector(P, q)
                     /\ Classified(reg) = preset_name(q) \o "\n"
                /\ (\A q \in Presets \ {P} : ~SameComparedVector(P, q))
                     => Classified(reg) = preset_name(P) \o "\n"

\* C1 witness: "balanced" applied to registers that classified as custom
C1_Witness ==
    \E t \in DOMAIN th :
        /\ Applied(t)
        /\ th[t].buf = "balanced"
        /\ Classified(reg0) = "custom\n"
        /\ Classified(reg) = "balanced\n"

KbdBlColumnAddress == MSI_EC_PRESET_MEMORY_TABLE[MSI_EC_PRESET_COLUMN_KBD_BL]

\* C2 as stated: preset_store leaves the byte of the keyboard-backlight
\* column as it was before the call.
C2_KbdBacklightUnaltered ==
    \A t \in DOMAIN th :
        Applied(t) => reg[KbdBlColumnAddress] = reg0[KbdBlColumnAddress]

\* C2 amended: preset_store writes the keyboard-backlight column as it does
\* every raw column: its second transport call is ec_write of the preset's
\* table byte to the column's address; with no transport failure that byte
\* is there when it returns, and under failures the byte is the table byte
\* or the one found.
C2_KbdBacklightWritten ==
    \A t \in DOMAIN th :
        (Returned(t, "preset_store") /\ preset_index(th[t].buf) # -1) =>
            LET value == MSI_EC_PRESET_VALUE_TABLE[preset_index(th[t].buf)]
                                                  [MSI_EC_PRESET_COLUMN_KBD_BL]
            IN  /\ th[t].log[MSI_EC_PRESET_COLUMN_KBD_BL + 1]
                     = [k |-> "w", a |-> KbdBlColumnAddress, v |-> value]
                /\ reg[KbdBlColumnAddress]
                     \in {value, reg0[KbdBlColumnAddress]}
                /\ ~th[t].failed => reg[KbdBlColumnAddress] = value

\* C2 witness: "balanced" applied over a different backlight byte
C2_Witness ==
    \E t \in DOMAIN th :
        /\ Applied(t)
        /\ th[t].buf = "balanced"
        /\ reg0[KbdBlColumnAddress] = 7
        /\ reg[KbdBlColumnAddress] # reg0[KbdBlColumnAddress]

\* C3: after ec_write_bit(addr, index, set) with no transport failure, bit
\* index of the byte at addr is set, its other seven bits are as before, and
\* every other register is unchanged.
C3_WriteBit ==
    \A t \in DOMAIN th :
        (Returned(t, "ec_write_bit") /\ ~th[t].failed) =>
            LET addr == th[t].arg[1]
                index == th[t].arg[2]
                set == th[t].arg[3]
            IN  /\ th[t].ret = 0
                /\ is_bit_set(index, reg[addr]) = set
                /\ \A i \in (0..7) \ {index} :
                     is_bit_set(i, reg[addr]) = is_bit_set(i, reg0[addr])
                /\ \A a \in Addrs \ {addr} : reg[a] = reg0[a]

\* C3 witnesses: the top bit set in a byte that had other bits set
C3_Witness ==
    \E t \in DOMAIN th :
        /\ Returned(t, "ec_write_bit") /\ ~th[t].failed
        /\ th[t].arg = <<MSI_EC_FAN_MODE_ADDRESS, 7, 1>>
        /\ reg0[MSI_EC_FAN_MODE_ADDRESS] = 93
        /\ reg[MSI_EC_FAN_MODE_ADDRESS] = 221

\* the bits of the byte at addr that the calls of prog write with
\* ec_write_bit
BitsWritten(prog, addr) ==
    { prog[i].index : i \in { j \in 1..Len(prog) :
                                prog[j].k = "wb" /\ prog[j].addr = addr } }

\* the value the last ec_write_bit of prog on that bit asks for
LastRequested(prog, addr, index) ==
    LET at == { j \in 1..Len(prog) :
                  prog[j].k = "wb" /\ prog[j].addr = addr
                  /\ prog[j].index = index }
        last == CHOOSE j \in at : \A i \in at : i <= j
    IN  prog[last].val

\* C4: two callers (fan_mode_store and preset_store, say) have written
\* different bits of the fan-mode byte with ec_write_bit and both have
\* returned without a transport failure: every bit that only one of them
\* writes holds the value that caller asked for.
C4_NoLostUpdate ==
    \A t \in DOMAIN th : \A u \in DOMAIN th \ {t} :
        (th[t].st = "done" /\ th[u].st = "done") =>
            \A i \in BitsWritten(ProgOf(th[t]), MSI_EC_FAN_MODE_ADDRESS)
                    \ BitsWritten(ProgOf(th[u]), MSI_EC_FAN_MODE_ADDRESS) :
                is_bit_set(i, reg[MSI_EC_FAN_MODE_ADDRESS])
                    = LastRequested(ProgOf(th[t]), MSI_EC_FAN_MODE_ADDRESS, i)

\* C5: preset_store and another writer have both returned: the registers
\* are those of running the two one after the other, in one of the two
\* orders.
C5_PresetSerialized ==
    \A t \in DOMAIN th : \A u \in DOMAIN th \ {t} :
        ( /\ Returned(t, "preset_store")
          /\ preset_index(th[t].buf) # -1
          /\ th[u].st = "done" ) =>
            \/ reg = Exec(ProgOf(th[u]), Exec(ProgOf(th[t]), reg0))
            \/ reg = Exec(ProgOf(th[t]), Exec(ProgOf(th[u]), reg0))

\* C6: fn_key_show and win_key_show print opposite positions in every
\* register state; fn_key_store("left") issued where win_key_show printed
\* "left" leaves it printing "right"; and fn_key_store of one side makes the
\* calls of win_key_store of the other side.
C6_FnWinComplement ==
    /\ {fn_key_show(reg, 0).out, win_key_show(reg, 0).out}
         = {"left\n", "right\n"}
    /\ \A t \in DOMAIN th :
         ( /\ Returned(t, "fn_key_store") /\ ~th[t].failed
           /\ streq(th[t].buf, "left")
           /\ win_key_show(reg0, 0).out = "left\n" ) =>
             /\ th[t].ret = Len(th[t].buf)
             /\ win_key_show(reg, 0).out = "right\n"
             /\ fn_key_show(reg, 0).out = "left\n"
    /\ \A n \in 0..1 :
         /\ fn_key_store("left", n) = win_key_store("right", n)
         /\ fn_key_store("right", n) = win_key_store("left", n)

\* C6 witness: the store flipped the bit and with it the windows key
C6_Witness ==
    \E t \in DOMAIN th :
        /\ Returned(t, "fn_key_store") /\ ~th[t].failed
        /\ th[t].buf = "left"
        /\ win_key_show(reg0, 0).out = "left\n"
        /\ win_key_show(reg, 0).out = "right\n"
        /\ reg # reg0

PresetNames ==
    {"super_battery", "silent", "balanced", "high_performance", "custom"}

\* preset v fits register file r: every column but the keyboard backlight
\* agrees, the silent-flag column by its bit
Fits(v, r) ==
    \A c \in Columns \ {MSI_EC_PRESET_COLUMN_KBD_BL} :
        LET value == MSI_EC_PRESET_VALUE_TABLE[v][c]
            rdata == r[MSI_EC_PRESET_MEMORY_TABLE[c]]
        IN  IF c = MSI_EC_PRESET_COLUMN_SILENT_FLAG
            THEN value = is_bit_set(MSI_EC_FAN_MODE_SILENT_BIT, rdata)
            ELSE value = rdata

\* C7: preset_show returns no error code whatever reads fail: it prints one
\* of the five names, and "custom" when the registers fit no preset.
C7_ClassificationNeverFails ==
    \A t \in DOMAIN th :
        Returned(t, "preset_show") =>
            /\ th[t].ret > 0
            /\ \E n \in PresetNames : th[t].out = n \o "\n"
            /\ (\A v \in Presets : ~Fits(v, reg)) => th[t].out = "custom\n"

\* C7 witness: a failed read made the fitting preset a non-match and
\* preset_show printed "custom"
C7_Witness ==
    \E t \in DOMAIN th :
        /\ Returned(t, "preset_show")
        /\ th[t].out = "custom\n"
        /\ th[t].failed
        /\ \E v \in Presets : Fits(v, reg)

\* the first transport call of every register operation in a log: an
\* ec_write right after an ec_read of the same address is the second half of
\* an ec_write_bit
RECURSIVE FirstCalls(_)
FirstCalls(log) ==
    IF log = <<>> THEN <<>>
    ELSE IF /\ Len(log) >= 2
            /\ log[1].k = "r" /\ log[2].k = "w" /\ log[2].a = log[1].a
         THEN <<log[1]>> \o FirstCalls(SubSeq(log, 3, Len(log)))
         ELSE <<log[1]>> \o FirstCalls(Tail(log))

KindAndAddress(log) == [i \in 1..Len(log) |-> <<log[i].k, log[i].a>>]

\* what preset_store is to attempt for preset P: the columns in table order,
\* the silent-flag column by a read of the fan-mode byte, then the two
\* fan-flag updates unless P is high_performance
ExpectedAttempts(P) ==
    [i \in 1..NumColumns |->
        IF i - 1 = MSI_EC_PRESET_COLUMN_SILENT_FLAG
        THEN <<"r", MSI_EC_PRESET_MEMORY_TABLE[i - 1]>>
        ELSE <<"w", MSI_EC_PRESET_MEMORY_TABLE[i - 1]>>]
    \o (IF P = MSI_EC_PRESET_HIGH_PERFORMANCE THEN <<>>
        ELSE << <<"r", MSI_EC_FAN_MODE_ADDRESS>>,
                <<"r", MSI_EC_FAN_MODE_ADDRESS>> >>)

\* C8: for a name of the table preset_store attempts every column in table
\* order and then the fan-flag step, whichever transport calls fail, and
\* returns count; for any other name it returns -EINVAL having made no
\* transport call.
C8_PartialFailureTolerated ==
    \A t \in DOMAIN th :
        Returned(t, "preset_store") =>
            LET P == preset_index(th[t].buf)
            IN  IF P = -1
                THEN /\ th[t].ret = 0 - EINVAL
                     /\ th[t].log = <<>>
                     /\ reg = reg0
                ELSE /\ th[t].ret = Len(th[t].buf)
                     /\ KindAndAddress(FirstCalls(th[t].log))
                          = ExpectedAttempts(P)

\* C8 witness: every transport call of preset_store("silent") failed
C8_Witness ==
    \E t \in DOMAIN th :
        /\ Returned(t, "preset_store")
        /\ th[t].buf = "silent"
        /\ th[t].failed
        /\ Len(th[t].log) = NumColumns + 2
        /\ reg = reg0
        /\ th[t].ret = Len(th[t].buf)

FanBits(byte) ==
    << is_bit_set(MSI_EC_FAN_MODE_ADVANCED_BIT, byte),
       is_bit_set(MSI_EC_FAN_MODE_BASIC_BIT, byte) >>

\* C9: for a preset other than high_performance the last calls of
\* preset_store, after those of every column, are the ec_write_bit clearing
\* the advanced bit and the one clearing the basic bit of the fan-mode
\* byte, and with no failure both bits are 0 on return; for
\* high_performance only the columns are written and the two bits stay.
C9_FinalFanStep ==
    \A t \in DOMAIN th :
        (Returned(t, "preset_store") /\ preset_index(th[t].buf) # -1) =>
            LET P == preset_index(th[t].buf)
                log == th[t].log
                n == Len(log)
                fan == MSI_EC_FAN_MODE_ADDRESS
            IN  IF P # MSI_EC_PRESET_HIGH_PERFORMANCE
                THEN ~th[t].failed =>
                       /\ n = NumColumns + 1 + 4
                       /\ KindAndAddress(SubSeq(log, n - 3, n))
                            = << <<"r", fan>>, <<"w", fan>>,
                                 <<"r", fan>>, <<"w", fan>> >>
                       /\ is_bit_set(MSI_EC_FAN_MODE_ADVANCED_BIT,
                                     log[n - 2].v) = 0
                       /\ FanBits(log[n].v) = <<0, 0>>
                       /\ FanBits(reg[fan]) = <<0, 0>>
                ELSE /\ Len(FirstCalls(log)) = NumColumns
                     /\ \A i \in 1..n :
                          (log[i].k = "w" /\ log[i].a = fan) =>
                              FanBits(log[i].v) = FanBits(reg0[fan])
                     /\ FanBits(reg[fan]) = FanBits(reg0[fan])

\* C9 witness: advanced and basic were set and a preset cleared them, or
\* high_performance left them set
C9_Witness ==
    \E t \in DOMAIN th :
        /\ Applied(t)
        /\ FanBits(reg0[MSI_EC_FAN_MODE_ADDRESS]) = <<1, 1>>
        /\ th[t].buf = "balanced"
        /\ FanBits(reg[MSI_EC_FAN_MODE_ADDRESS]) = <<0, 0>>

\* the words each store handler takes
Vocabulary(op) ==
    CASE op \in {"webcam_store", "cooler_boost_store"} -> {"on", "off"}
      [] op \in {"fn_key_store", "win_key_store"} -> {"left", "right"}
      [] op = "battery_charge_mode_store" -> {"max", "medium", "min"}
      [] op = "shift_mode_store" -> {"overclock", "balanced", "eco", "off"}
      [] op = "fan_mode_store" -> {"auto", "silent", "basic", "advanced"}
      [] op = "preset_store" ->
            {"super_battery", "silent", "balanced", "high_performance"}
      [] OTHER -> {}

StoreOps ==
    { "webcam_store", "fn_key_store", "win_key_store",
      "battery_charge_mode_store", "cooler_boost_store", "shift_mode_store",
      "fan_mode_store", "preset_store" }

\* buf is a word of the handler's vocabulary, as written or with the
\* newline that ends a line written to the attribute
InVocabulary(op, buf) == \E w \in Vocabulary(op) : streq(buf, w)

\* C10: a store handler given text outside its vocabulary, and
\* kbd_bl_sysfs_set given a level of 4 or more, return an error having made
\* no ec_read and no ec_write, with every register as before.
C10_InvalidRejected ==
    \A t \in DOMAIN th :
        ( /\ th[t].st = "done"
          /\ \/ th[t].op \in StoreOps /\ ~InVocabulary(th[t].op, th[t].buf)
             \/ th[t].op = "kbd_bl_sysfs_set" /\ th[t].arg[1] >= 4 ) =>
            /\ th[t].ret < 0
            /\ th[t].log = <<>>
            /\ reg = reg0

\* C10 witness: fan_mode_store given a word of another vocabulary
C10_Witness ==
    \E t \in DOMAIN th :
        /\ Returned(t, "fan_mode_store")
        /\ th[t].buf = "eco"
        /\ th[t].ret = 0 - EINVAL
        /\ th[t].log = <<>>

\* the handlers that set one mode
ModeEncoders ==
    { "webcam_store", "fn_key_store", "win_key_store",
      "battery_charge_mode_store", "cooler_boost_store", "shift_mode_store",
      "fan_mode_store", "kbd_bl_sysfs_set", "micmute_led_sysfs_set",
      "mute_led_sysfs_set" }

\* the ec_write calls of a log
WritesOf(log) == { i \in 1..Len(log) : log[i].k = "w" }

\* C11: a mode encoder given a valid value has, on return, issued at most
\* one ec_write; with no transport failure exactly one, preceded for a
\* bit-flag mode by the one ec_read of the same register.
C11_OneWritePerRequest ==
    \A t \in DOMAIN th :
        ( /\ th[t].st = "done"
          /\ th[t].op \in ModeEncoders
          /\ ProgOf(th[t]) # <<>> ) =>
            /\ Cardinality(WritesOf(th[t].log)) <= 1
            /\ ~th[t].failed =>
                 /\ Cardinality(WritesOf(th[t].log)) = 1
                 /\ Len(th[t].log) <= 2

\* the handlers in which a failed transport call is to end the operation:
\* every one but preset_store and preset_show
Propagating(op) == op \notin {NoOp, "preset_store", "preset_show"}

\* C12: outside preset_store and preset_show, a handler one of whose
\* transport calls failed returns the code of that call, prints nothing,
\* and made no call twice in a row.
C12_FailureSurfaces ==
    \A t \in DOMAIN th :
        ( /\ th[t].st = "done"
          /\ Propagating(th[t].op)
          /\ th[t].failed ) =>
            /\ th[t].err \in TransportErrs
            /\ th[t].ret = th[t].err
            /\ th[t].out = ""
            /\ \A i \in 2..Len(th[t].log) : th[t].log[i] # th[t].log[i - 1]

\* how many of the silent, advanced and basic bits a fan-mode byte has set
FanFlagsSet(byte) ==
    is_bit_set(MSI_EC_FAN_MODE_SILENT_BIT, byte)
    + is_bit_set(MSI_EC_FAN_MODE_ADVANCED_BIT, byte)
    + is_bit_set(MSI_EC_FAN_MODE_BASIC_BIT, byte)

\* C13: from a fan-mode byte with at most one of the three bits set, every
\* state fan_mode_store and preset_store pass through or leave behind,
\* failed transport calls included, has at most one of them set.
C13_FanExclusive ==
    FanFlagsSet(reg0[MSI_EC_FAN_MODE_ADDRESS]) <= 1
        => FanFlagsSet(reg[MSI_EC_FAN_MODE_ADDRESS]) <= 1

\* the register each fan-speed attribute reads
FanSpeedAddress(op) ==
    IF op = "cpu_realtime_fan_speed_show"
    THEN MSI_EC_CPU_REALTIME_FAN_SPEED_ADDRESS
    ELSE MSI_EC_GPU_REALTIME_FAN_SPEED_ADDRESS

\* a fan-speed attribute has returned after a read that went well; what it
\* is to give for the raw byte: the percentage of the calibrated range, an
\* error and no number outside the range
RescaledOrError(t) ==
    LET raw == reg[FanSpeedAddress(th[t].op)]
        min == MSI_EC_CPU_REALTIME_FAN_SPEED_BASE_MIN
        max == MSI_EC_CPU_REALTIME_FAN_SPEED_BASE_MAX
    IN  IF raw < min \/ raw > max
        THEN th[t].ret < 0 /\ th[t].out = ""
        ELSE /\ th[t].out
                  = Decimal((100 * (raw - min)) \div (max - min)) \o "\n"
             /\ raw = min => th[t].out = "0\n"
             /\ raw = max => th[t].out = "100\n"

\* C14: the cpu and the gpu realtime_fan_speed attributes print the raw
\* byte rescaled to a percentage of [MIN, MAX], and return an error for a
\* raw byte outside the range.
C14_FanSpeedRescaled ==
    \A t \in DOMAIN th :
        ( /\ th[t].st = "done"
          /\ th[t].op \in {"cpu_realtime_fan_speed_show",
                           "gpu_realtime_fan_speed_show"}
          /\ ~th[t].failed ) => RescaledOrError(t)

\* C15: after kbd_bl_sysfs_set(L) for a level L of 0..3 with no transport
\* failure, kbd_bl_sysfs_get returns L.
C15_KbdBacklightRoundTrip ==
    \A t \in DOMAIN th :
        ( /\ Returned(t, "kbd_bl_sysfs_set")
          /\ ~th[t].failed
          /\ th[t].arg[1] \in 0..3 ) =>
            /\ th[t].ret = 0
            /\ kbd_bl_sysfs_get(reg, 0).ret = th[t].arg[1]

\* C15 witness: level 3 set over a byte that read as another level
C15_Witness ==
    \E t \in DOMAIN th :
        /\ Returned(t, "kbd_bl_sysfs_set")
        /\ ~th[t].failed
        /\ th[t].arg = <<3>>
        /\ kbd_bl_sysfs_get(reg0, 0).ret = 0
        /\ reg[MSI_EC_KBD_BL_ADDRESS] = MSI_EC_KBD_BL_STATE[3]
        /\ kbd_bl_sysfs_get(reg, 0).ret = 3

\* the enumerated-mode reads: the register each decodes and the table byte
\* of each known value
DecodeAddress(op) ==
    CASE op = "battery_charge_mode_show" -> MSI_EC_BATTERY_MODE_ADDRESS
      [] op = "shift_mode_show" -> MSI_EC_SHIFT_MODE_ADDRESS
      [] OTHER -> MSI_EC_KBD_BL_ADDRESS

DecodeTable(op) ==
    CASE op = "battery_charge_mode_show" ->
            << <<"max", MSI_EC_BATTERY_MODE_MAX_CHARGE>>,
               <<"medium", MSI_EC_BATTERY_MODE_MEDIUM_CHARGE>>,
               <<"min", MSI_EC_BATTERY_MODE_MIN_CHARGE>> >>
      [] OTHER ->
            << <<"overclock", MSI_EC_SHIFT_MODE_OVERCLOCK>>,
               <<"balanced", MSI_EC_SHIFT_MODE_BALANCED>>,
               <<"eco", MSI_EC_SHIFT_MODE_ECO>>,
               <<"off", MSI_EC_SHIFT_MODE_OFF>> >>

\* C16: an enumerated-mode read whose ec_read went well returns no error
\* and gives the known value whose table byte is the raw byte, or, for a
\* raw byte that is no table byte, a result that is none of the known
\* values (for the text attributes "unknown" with the raw byte).
C16_DecodeTotalExact ==
    \A t \in DOMAIN th :
        ( /\ th[t].st = "done"
          /\ th[t].op \in {"battery_charge_mode_show", "shift_mode_show",
                           "kbd_bl_sysfs_get"}
          /\ ~th[t].failed ) =>
            LET raw == reg[DecodeAddress(th[t].op)]
            IN  /\ th[t].ret >= 0
                /\ IF th[t].op = "kbd_bl_sysfs_get"
                   THEN \A level \in 0..3 :
                          (th[t].ret = level)
                              <=> (raw = MSI_EC_KBD_BL_STATE[level])
                   ELSE LET table == DecodeTable(th[t].op)
                        IN  /\ \A i \in 1..Len(table) :
                                 (th[t].out = table[i][1] \o "\n")
                                     <=> (raw = table[i][2])
                            /\ (\A i \in 1..Len(table) : raw # table[i][2])
                                 => th[t].out
                                      = "unknown (" \o Decimal(raw) \o ")\n"

\* preset_show starts on a preset with the read of the first column: the
\* numbers of those reads in its log
AttemptStarts(log) ==
    { i \in 1..Len(log) : log[i].a = MSI_EC_PRESET_MEMORY_TABLE[0] }

\* the numbers of the reads made for preset v (from 0), none if the search
\* ended before it
AttemptReads(log, v) ==
    { i \in 1..Len(log) :
        Cardinality({ j \in AttemptStarts(log) : j <= i }) = v + 1 }

\* preset v was compared with no failed read and fits the registers
CleanMatch(log, fails, v) ==
    /\ AttemptReads(log, v) # {}
    /\ AttemptReads(log, v) \cap fails = {}
    /\ Fits(v, reg)

\* C17: in preset_show a failed read is the last read made for the preset
\* being compared, and the search goes on with the next preset in table
\* order; the preset printed is the first one that fits the registers and
\* had none of its reads fail, "custom" when there is none.
C17_ReadFailureSkipsPreset ==
    \A t \in DOMAIN th :
        Returned(t, "preset_show") =>
            LET log == th[t].log
                fails == th[t].arg[1]
                tried == Cardinality(AttemptStarts(log))
            IN  /\ \A i \in fails \cap (1..Len(log)) :
                     IF i < Len(log)
                     THEN log[i + 1].a = MSI_EC_PRESET_MEMORY_TABLE[0]
                     ELSE tried = NumPresets
                /\ \A v \in 0..(tried - 2) : ~CleanMatch(log, fails, v)
                /\ IF CleanMatch(log, fails, tried - 1)
                   THEN th[t].out = preset_name(tried - 1) \o "\n"
                   ELSE tried = NumPresets /\ th[t].out = "custom\n"

\* C17 witness: the first read, made for super_battery, failed and
\* "balanced", two presets later, was printed
C17_Witness ==
    \E t \in DOMAIN th :
        /\ Returned(t, "preset_show")
        /\ th[t].arg[1] = {1}
        /\ Len(th[t].log) > 1
        /\ th[t].out = "balanced\n"

\* C18: ec_write_bit one of whose transport calls failed returns the code
\* of that call and leaves every register as it was; it made either the
\* ec_read alone (the read failed, no ec_write was issued) or the ec_read
\* and one ec_write to the same address (the write failed).
C18_WriteBitFailure ==
    \A t \in DOMAIN th :
        (Returned(t, "ec_write_bit") /\ th[t].failed) =>
            LET addr == th[t].arg[1]
                log == th[t].log
            IN  /\ th[t].err \in TransportErrs
                /\ th[t].ret = th[t].err
                /\ reg = reg0
                /\ Len(log) \in {1, 2}
                /\ log[1] = ReadOf(addr)
                /\ Len(log) = 2 => (log[2].k = "w" /\ log[2].a = addr)

\* C18 witness: the read went well and the write of the changed byte failed
C18_Witness ==
    \E t \in DOMAIN th :
        /\ Returned(t, "ec_write_bit") /\ th[t].failed
        /\ th[t].arg = <<MSI_EC_FAN_MODE_ADDRESS, 7, 1>>
        /\ Len(th[t].log) = 2
        /\ th[t].log[2].v = 221
        /\ th[t].ret = 0 - EIO
        /\ reg[MSI_EC_FAN_MODE_ADDRESS] = 93

\* the reads of len bytes from addr on, in ascending order
ReadsFrom(addr, len) == [i \in 1..len |-> ReadOf(addr + i - 1)]

\* the bytes the registers hold from addr on
BytesAt(addr, len) == [i \in 1..len |-> reg[addr + i - 1]]

\* the reads a firmware attribute makes when none fails
FwReads(op) ==
    IF op = "fw_version_show"
    THEN ReadsFrom(MSI_EC_FW_VERSION_ADDRESS, MSI_EC_FW_VERSION_LENGTH)
    ELSE ReadsFrom(MSI_EC_FW_DATE_ADDRESS, MSI_EC_FW_DATE_LENGTH)
         \o ReadsFrom(MSI_EC_FW_TIME_ADDRESS, MSI_EC_FW_TIME_LENGTH)

\* C19: ec_read_seq(addr, buf, len) reads addr, addr + 1, ... in ascending
\* order, one ec_read per byte, each byte stored as it is read; with no
\* failure it makes len reads and returns 0; the read that fails is its last
\* read and its code is returned.  fw_version_show and fw_release_date_show
\* then return that code and print nothing.
C19_ReadSeq ==
    \A t \in DOMAIN th :
        /\ th[t].op \in ReadSeqOps => (th[t].failed => th[t].st = "done")
        /\ th[t].op = "ec_read_seq" =>
             LET addr == th[t].arg[1]
                 len == th[t].arg[2]
                 buf == th[t].arg[3]
                 made == Len(th[t].log)
             IN  /\ made <= len
                 /\ th[t].log = ReadsFrom(addr, made)
                 /\ th[t].st = "done" =>
                      IF ~th[t].failed
                      THEN /\ th[t].ret = 0
                           /\ made = len
                           /\ Len(buf) = len
                           /\ reg = reg0 => buf = BytesAt(addr, len)
                      ELSE /\ th[t].ret = th[t].err
                           /\ th[t].err \in TransportErrs
                           /\ Len(buf) = made - 1
                           /\ reg = reg0 => buf = BytesAt(addr, made - 1)
        /\ ( /\ th[t].st = "done"
             /\ th[t].op \in {"fw_version_show", "fw_release_date_show"} ) =>
             LET all == FwReads(th[t].op)
                 made == Len(th[t].log)
             IN  IF ~th[t].failed
                 THEN th[t].log = all /\ th[t].ret > 0
                 ELSE /\ made <= Len(all)
                      /\ th[t].log = SubSeq(all, 1, made)
                      /\ th[t].ret = th[t].err
                      /\ th[t].err \in TransportErrs
                      /\ th[t].out = ""

\* C19 witness: the third read of the time sequence failed after the whole
\* date sequence was read
C19_Witness ==
    \E t \in DOMAIN th :
        /\ Returned(t, "fw_release_date_show")
        /\ th[t].failed
        /\ Len(th[t].log) = MSI_EC_FW_DATE_LENGTH + 3
        /\ th[t].log[Len(th[t].log)].a = MSI_EC_FW_TIME_ADDRESS + 2
        /\ th[t].ret = 0 - EIO
        /\ th[t].out = ""

\* fixed-width firmware texts: MMDDYYYY, eight digits, and HH:MM:SS
WellFormedDate(date) == \A i \in 1..Len(date) : IsDigit(date[i])

WellFormedTime(time) ==
    \A i \in 1..Len(time) :
        IF i \in {3, 6} THEN time[i] = 58 ELSE IsDigit(time[i])

\* C20: fw_release_date_show, both sequences read, prints the date and the
\* time as "YYYY/MM/DD HH:MM:SS" when both texts are well formed
\* ("09152023" and "14:30:05" give "2023/09/15 14:30:05"), and otherwise
\* returns an error that is no transport failure code and prints nothing.
C20_ReleaseDate ==
    \A t \in DOMAIN th :
        (Returned(t, "fw_release_date_show") /\ ~th[t].failed) =>
            LET date == th[t].arg[5]
                time == th[t].arg[3]
            IN  IF WellFormedDate(date) /\ WellFormedTime(time)
                THEN th[t].out
                       = Text(SubSeq(date, 5, 8)) \o "/"
                         \o Text(SubSeq(date, 1, 2)) \o "/"
                         \o Text(SubSeq(date, 3, 4)) \o " "
                         \o Text(time) \o "\n"
                ELSE /\ th[t].ret < 0
                     /\ th[t].ret \notin TransportErrs
                     /\ th[t].out = ""

\* the reference classifier: the name of the first preset, in table order,
\* that fits the registers, "custom" when none does
ReferenceClassifier(r) ==
    IF \E v \in Presets : Fits(v, r)
    THEN preset_name(CHOOSE v \in Presets :
                        /\ Fits(v, r)
                        /\ \A u \in Presets : u < v => ~Fits(u, r))
    ELSE "custom"

\* C21: with no read failure preset_show prints what the reference
\* classifier gives: the first preset in table order whose columns all pass
\* (keyboard backlight always, silent flag by the silent bit alone, every
\* other column by byte equality), "custom" when none passes; the
\* classification is the same for every keyboard-backlight byte.
C21_ReferenceClassifier ==
    \A t \in DOMAIN th :
        (Returned(t, "preset_show") /\ ~th[t].failed) =>
            /\ th[t].out = ReferenceClassifier(reg) \o "\n"
            /\ \A b \in {0, 7, 255} \cup 128..131 :
                 LET other == [reg EXCEPT ![KbdBlColumnAddress] = b]
                 IN  preset_show(other, {}).out = th[t].out

\* C21 witness: two presets fit, the first one is printed, with a
\* keyboard-backlight byte of no preset and other bits set in the fan-mode
\* byte
C21_Witness ==
    \E t \in DOMAIN th :
        /\ Returned(t, "preset_show") /\ ~th[t].failed
        /\ Fits(MSI_EC_PRESET_BALANCED, reg)
        /\ Fits(MSI_EC_PRESET_HIGH_PERFORMANCE, reg)
        /\ th[t].out = "balanced\n"
        /\ reg[KbdBlColumnAddress] = 7
        /\ reg[MSI_EC_FAN_MODE_ADDRESS] = 141

\* the silent, advanced and basic flags of a fan-mode byte
FanFlags(byte) ==
    << is_bit_set(MSI_EC_FAN_MODE_SILENT_BIT, byte),
       is_bit_set(MSI_EC_FAN_MODE_ADVANCED_BIT, byte),
       is_bit_set(MSI_EC_FAN_MODE_BASIC_BIT, byte) >>

\* C22: fan_mode_show, its read succeeding, prints "silent" iff the silent
\* bit is set, "advanced" iff silent is clear and advanced set, "basic" iff
\* silent and advanced are clear and basic set, "auto" iff the three are
\* clear; every byte with the same three flags gets the same text.
C22_FanModePriority ==
    \A t \in DOMAIN th :
        (Returned(t, "fan_mode_show") /\ ~th[t].failed) =>
            LET byte == reg[MSI_EC_FAN_MODE_ADDRESS]
                f == FanFlags(byte)
                out == th[t].out
            IN  /\ out = "silent\n" <=> f[1] = 1
                /\ out = "advanced\n" <=> (f[1] = 0 /\ f[2] = 1)
                /\ out = "basic\n" <=> (f[1] = 0 /\ f[2] = 0 /\ f[3] = 1)
                /\ out = "auto\n" <=> f = <<0, 0, 0>>
                /\ \A b \in 0..255 :
                     FanFlags(b) = f =>
                       fan_mode_show([reg EXCEPT
                           ![MSI_EC_FAN_MODE_ADDRESS] = b], 0).out = out

\* C22 witness: the three flags are set together with other bits and
\* "silent" is printed
C22_Witness ==
    \E t \in DOMAIN th :
        /\ Returned(t, "fan_mode_show") /\ ~th[t].failed
        /\ FanFlags(reg[MSI_EC_FAN_MODE_ADDRESS]) = <<1, 1, 1>>
        /\ reg[MSI_EC_FAN_MODE_ADDRESS] = 221
        /\ th[t].out = "silent\n"

\* the bits of a fan-mode byte that are none of the three mode flags
OtherFanBits(byte) ==
    [i \in (0..7) \ {MSI_EC_FAN_MODE_SILENT_BIT, MSI_EC_FAN_MODE_ADVANCED_BIT,
                     MSI_EC_FAN_MODE_BASIC_BIT} |-> is_bit_set(i, byte)]

\* C23: preset_store attempts the columns in table order, the silent-flag
\* column by the read-modify-write of ec_write_bit on the silent bit and
\* every other column by an ec_write of the table byte; every byte it hands
\* to ec_write for the fan-mode register has the other bits of the byte
\* found, and with no failure those bits are the same on return.
C23_SilentColumnByBit ==
    \A t \in DOMAIN th :
        (Returned(t, "preset_store") /\ preset_index(th[t].buf) # -1) =>
            LET P == preset_index(th[t].buf)
                log == th[t].log
                calls == FirstCalls(log)
                fan == MSI_EC_FAN_MODE_ADDRESS
                silent == MSI_EC_PRESET_COLUMN_SILENT_FLAG
            IN  /\ Len(calls) >= NumColumns
                /\ \A c \in Columns :
                     /\ calls[c + 1].a = MSI_EC_PRESET_MEMORY_TABLE[c]
                     /\ IF c = silent
                        THEN calls[c + 1].k = "r"
                        ELSE /\ calls[c + 1].k = "w"
                             /\ calls[c + 1].v
                                  = MSI_EC_PRESET_VALUE_TABLE[P][c]
                /\ \A i \in 1..Len(log) :
                     (log[i].k = "w" /\ log[i].a = fan) =>
                         OtherFanBits(log[i].v) = OtherFanBits(reg0[fan])
                /\ ~th[t].failed =>
                     /\ log[silent + 1].k = "r" /\ log[silent + 1].a = fan
                     /\ log[silent + 2].k = "w" /\ log[silent + 2].a = fan
                     /\ log[silent + 2].v
                          = ec_write_bit_data(reg0[fan],
                                MSI_EC_FAN_MODE_SILENT_BIT,
                                MSI_EC_PRESET_VALUE_TABLE[P][silent] # 0)
                     /\ OtherFanBits(reg[fan]) = OtherFanBits(reg0[fan])

\* C23 witness: "silent" applied to a fan-mode byte with the advanced flag
\* and other bits set: the silent bit is set, the other bits stay
C23_Witness ==
    \E t \in DOMAIN th :
        /\ Applied(t)
        /\ th[t].buf = "silent"
        /\ reg0[MSI_EC_FAN_MODE_ADDRESS] = 141
        /\ reg[MSI_EC_FAN_MODE_ADDRESS] = 29

FanModes == {"auto", "silent", "basic", "advanced"}

\* C24: after fan_mode_store(m) has returned count, no transport call
\* having failed, fan_mode_show prints m, of the silent, advanced and basic
\* flags exactly that of m is set (none for "auto"), the other bits of the
\* fan-mode byte are as before the call and so is every other register.
C24_FanModeRoundTrip ==
    \A t \in DOMAIN th :
        ( /\ Returned(t, "fan_mode_store")
          /\ ~th[t].failed
          /\ th[t].ret = Len(th[t].buf)
          /\ th[t].ret > 0 ) =>
            \E m \in FanModes :
                LET fan == MSI_EC_FAN_MODE_ADDRESS
                    flag(b) == IF b THEN 1 ELSE 0
                IN  /\ streq(th[t].buf, m)
                    /\ fan_mode_show(reg, 0).out = m \o "\n"
                    /\ FanFlags(reg[fan])
                         = << flag(m = "silent"), flag(m = "advanced"),
                              flag(m = "basic") >>
                    /\ OtherFanBits(reg[fan]) = OtherFanBits(reg0[fan])
                    /\ \A a \in (DOMAIN reg) \ {fan} : reg[a] = reg0[a]

\* C24 witness: "auto" stored over a byte with the three flags and other
\* bits set, and "basic" stored over a byte with the silent flag set
C24_Witness ==
    \E t \in DOMAIN th :
        /\ Returned(t, "fan_mode_store") /\ ~th[t].failed
        /\ \/ /\ th[t].buf = "auto"
              /\ reg0[MSI_EC_FAN_MODE_ADDRESS] = 221
              /\ reg[MSI_EC_FAN_MODE_ADDRESS] = 13
           \/ /\ th[t].buf = "basic"
              /\ reg0[MSI_EC_FAN_MODE_ADDRESS] = 29
              /\ reg[MSI_EC_FAN_MODE_ADDRESS] = 77

\* the show callbacks and the backlight getter
ReadHandlers ==
    { "webcam_show", "fn_key_show", "win_key_show",
      "battery_charge_mode_show", "cooler_boost_show", "shift_mode_show",
      "fan_mode_show", "preset_show", "fw_version_show",
      "fw_release_date_show", "ac_connected_show", "lid_open_show",
      "cpu_realtime_temperature_show", "cpu_realtime_fan_speed_show",
      "gpu_realtime_temperature_show", "gpu_realtime_fan_speed_show",
      "kbd_bl_sysfs_get" }

\* C25: whatever show callbacks and backlight reads have run, their reads
\* succeeding or failing, every register holds the byte it held at the
\* start, and the transport calls the handler that has just returned made
\* are ec_read calls, at least one, and no ec_write.
C25_ReadsChangeNothing ==
    /\ reg = reg0
    /\ \A t \in DOMAIN th :
         th[t].st = "done" =>
            /\ th[t].op \in ReadHandlers
            /\ Len(th[t].log) >= 1
            /\ \A i \in 1..Len(th[t].log) : th[t].log[i].k = "r"

\* C25 witness: preset_show has read every column of every preset, one
\* read failing, and the registers are as they were
C25_Witness ==
    \E t \in DOMAIN th :
        /\ Returned(t, "preset_show")
        /\ th[t].failed
        /\ Len(th[t].log) >= NumColumns + 1
        /\ th[t].out = "custom\n"
        /\ reg = reg0

====
